---------------------------- MODULE Spec2Model ----------------------------
(***************************************************************************)
(* A model of libcatner (src/src/libcatner.c): the BMEcat document tree    *)
(* held by a catner_state_s handle, the five selection cursors, the        *)
(* last-error slot, and the public catner_* operations on them.            *)
(*                                                                         *)
(* The XML tree is kept per element kind: the children of T_NEW_CATALOG    *)
(* are the sequence arts; each ARTICLE holds its SUPPLIER_AID, the two     *)
(* texts of ARTICLE_DETAILS, its ARTICLE_REFERENCE children, its MIME_INFO *)
(* container, its ARTICLE_ORDER_DETAILS container and its ARTICLE_FEATURES *)
(* container.  Every search of the code is a search by element name among  *)
(* the direct children of one node, so the order of children of different  *)
(* names is not observable and is not kept.  A cursor holds the place of   *)
(* the node it points to: the child indices on the way down from           *)
(* T_NEW_CATALOG, each counted among the siblings of the node's own kind.  *)
(***************************************************************************)
EXTENDS Integers, Sequences, FiniteSets, TLC

VARIABLES
    arts,          \* children of cs->articles, in document order
    curr_article,  \* cs->_curr_article: <<article>>
    curr_feature,  \* cs->_curr_feature: <<article, feature>>
    curr_variant,  \* cs->_curr_variant: <<article, feature, variant>>
    curr_image,    \* cs->_curr_image: <<article, image>>
    curr_unit,     \* cs->_curr_unit: <<article, alternative unit>>
    error,         \* cs->error
    ret,           \* the value the last public call returned
    call,          \* the last public call: its name and its arguments
    pre,           \* history: the tree and the cursors as the last call found them
    unit_calls,    \* history: per ARTICLE, the catner_add_article_unit calls that reached it
                   \* (kept by the specifications that need it)
    doc,           \* cs->doc outside T_NEW_CATALOG: the root element, the HEADER,
                   \* T_NEW_CATALOG and CATALOG elements, and the children of
                   \* HEADER and CATALOG
    cs,            \* the handle: whether the caller got one, its anchors, its path
    file,          \* the file the caller writes to and loads: <<>> while there is
                   \* none, else one document with its articles
    buf            \* the caller's buffer, as the last getter left it

vars == <<arts, curr_article, curr_feature, curr_variant, curr_image,
          curr_unit, error, ret, call, pre, unit_calls, doc, cs, file,
          buf>>

cursor == <<curr_article, curr_feature, curr_variant, curr_image, curr_unit>>

head == <<doc, cs, file, buf>>

-----------------------------------------------------------------------------
(* Program constants.                                                      *)

LIBCATNER_ERR_NONE == 0
LIBCATNER_ERR_OTHER == -1
LIBCATNER_ERR_ALREADY_EXISTS == -3
LIBCATNER_ERR_INVALID_VALUE == -4
LIBCATNER_ERR_NO_SUCH_AID == -10
LIBCATNER_ERR_NO_SUCH_FID == -11
LIBCATNER_ERR_NO_SUCH_VID == -12
LIBCATNER_ERR_NO_SUCH_NODE == -13
LIBCATNER_ERR_NO_SEL_ARTICLE == -20
LIBCATNER_ERR_NO_SEL_FEATURE == -21
LIBCATNER_ERR_NO_SEL_VARIANT == -22
LIBCATNER_ERR_NO_SEL_IMAGE == -23
LIBCATNER_ERR_NO_SEL_UNIT == -24

BMECAT_NODE_ROOT == "BMECAT"
BMECAT_NODE_ARTICLE_ID == "SUPPLIER_AID"
BMECAT_NODE_ARTICLE_TITLE == "DESCRIPTION_SHORT"
BMECAT_NODE_ARTICLE_DESCR == "DESCRIPTION_LONG"
BMECAT_NODE_ARTICLE_IMAGE == "MIME"
BMECAT_NODE_ARTICLE_IMAGE_PATH == "MIME_SOURCE"

LIBCATNER_DEF_UNIT_CODE == "PCE"
LIBCATNER_DEF_UNIT_FACTOR == "1"
LIBCATNER_DEF_FEATURE_UNIT == "00"

\* A NULL char pointer (an omitted argument) or an absent text node.
NULL == "<NULL>"

\* A NULL node pointer, and a pointer to a node that was freed.
NoNode == <<>>
Dangling == <<-1>>

\* cs->generator after the GENERATOR_INFO it points to was freed (its other
\* values: 0 for NULL, or the node's index among the GENERATOR_INFO of HEADER).
FreedGenerator == -1

\* The texts a GENERATOR_INFO is given.
Generators == {"g", "h", ""}

-----------------------------------------------------------------------------
(* Bounds of the model.                                                    *)

MaxArticles == 2
MaxFeatures == 2
MaxVariants == 2
MaxImages == 2
MaxUnitCalls == 3
MaxGenerators == 2
MaxContent == 3
MaxCapacity == 4

-----------------------------------------------------------------------------
(* Input alphabets.                                                        *)

AIDs == {"A", "B"}
FIDs == {"F", "G"}
VIDs == {"V", "W"}
Paths == {"p", "q"}
Mimes == {"image/jpg", "image/png"}
Codes == {"PCE", "MTR"}
Factors == {"1", "6"}

-----------------------------------------------------------------------------
(* Tree primitives.                                                        *)

\* The first of the child indices in S, 0 (NULL) when S is empty: the loop
\* `for (child = parent->children; child; child = child->next)` returns the
\* first child that matches.
First(S) ==
    IF S = {} THEN 0 ELSE CHOOSE i \in S : \A j \in S : i <= j

\* xmlUnlinkNode + xmlFreeNode on the i-th of the siblings s.
RemoveAt(s, i) == SubSeq(s, 1, i - 1) \o SubSeq(s, i + 1, Len(s))

\* What a pointer p holds once the node at place d is unlinked and freed:
\* it dangles if it pointed to that node or below it, and it still points
\* to its node, now one place earlier, if the node followed d among the
\* siblings.  (p and d are places counted among the same kinds of nodes.)
Moved(p, d) ==
    LET k == Len(d) IN
    IF Len(p) < k THEN p
    ELSE IF SubSeq(p, 1, k) = d THEN Dangling
    ELSE IF SubSeq(p, 1, k - 1) = SubSeq(d, 1, k - 1) /\ p[k] > d[k]
         THEN [p EXCEPT ![k] = @ - 1]
    ELSE p

xmlStrlen(s) == IF s = NULL THEN 0 ELSE Len(s)

\* libcatner_get_article: index in articles of the first ARTICLE whose
\* SUPPLIER_AID has the content aid, 0 for NULL.  libcatner_get_child with
\* a NULL value matches by name alone, so a NULL aid finds the first ARTICLE.
libcatner_get_article_skip(articles, aid) ==
    First({i \in 2..Len(articles) : aid = NULL \/ articles[i].aid = aid})

libcatner_get_article(articles, aid) ==
    First({i \in 1..Len(articles) : aid = NULL \/ articles[i].aid = aid})

\* The index in arts of the ARTICLE a pointer holds, 0 for NULL.
ArticleAt(p) == IF Len(p) = 1 /\ p[1] \in 1..Len(arts) THEN p[1] ELSE 0

\* `aid ? libcatner_get_article(cs->articles, aid) : cs->_curr_article`
ArticleArg(aid) ==
    IF aid # NULL THEN libcatner_get_article(arts, aid)
    ELSE ArticleAt(curr_article)

-----------------------------------------------------------------------------
(* The handle after catner_init().                                         *)

\* The document catner_init() builds: BMECAT with an empty HEADER, an empty
\* T_NEW_CATALOG, and an empty CATALOG under HEADER.  generators are the
\* contents of the GENERATOR_INFO children of HEADER, locales and territories
\* those of the LOCALE and TERRITORY children of CATALOG, in document order.
FreshDoc ==
    [root |-> BMECAT_NODE_ROOT, header |-> TRUE, articles |-> TRUE,
     catalog |-> TRUE, generators |-> <<>>, locales |-> <<>>,
     territories |-> <<>>]

\* The catner_state_s catner_init() returns: the four anchors bound,
\* generator (the index among the GENERATOR_INFO children, 0 for NULL) and
\* path NULL.  valid tells whether the caller was given the handle.
FreshState ==
    [valid |-> TRUE, root |-> TRUE, header |-> TRUE, articles |-> TRUE,
     catalog |-> TRUE, generator |-> 0, path |-> NULL]

\* The terminating null byte, and the byte of a buffer nobody wrote yet.
NUL == "NUL"
Garbage == "?"

\* A buffer of len bytes in memory filled with the byte fill, together with
\* the MaxContent + 1 bytes that follow it.
Memory(len, fill) == [i \in 1..(len + MaxContent + 1) |-> fill]

\* The caller's buffer: the node content a getter was given (NULL for a NULL
\* node), the memory, the buffer's length and the byte it was filled with.
NoBuffer == [node |-> NULL, mem |-> <<>>, len |-> 0, fill |-> NUL]

InitHandle ==
    /\ arts = <<>>
    /\ curr_article = NoNode
    /\ curr_feature = NoNode
    /\ curr_variant = NoNode
    /\ curr_image = NoNode
    /\ curr_unit = NoNode
    /\ error = LIBCATNER_ERR_NONE
    /\ ret = 0
    /\ call = [op |-> "init", a |-> NULL, f |-> NULL, v |-> NULL, x |-> NULL]
    /\ pre = [arts |-> <<>>, cursor |-> <<NoNode, NoNode, NoNode, NoNode, NoNode>>,
              doc |-> FreshDoc]
    /\ unit_calls = <<>>
    /\ doc = FreshDoc
    /\ cs = FreshState
    /\ file = <<>>

Init ==
    /\ InitHandle
    /\ buf = NoBuffer

\* Every public call records itself and the state it started from.  a, f
\* and v are the article, feature and variant (or image path, category id)
\* arguments, x the value argument; catner_add_article records its title
\* as v and its description as x.
Called(op, a, f, v, x) ==
    /\ call' = [op |-> op, a |-> a, f |-> f, v |-> v, x |-> x]
    /\ pre' = [arts |-> arts, cursor |-> cursor, doc |-> doc]

\* A call on a handle that works below T_NEW_CATALOG: the caller holds a
\* handle, and the rest of the document, the anchors and the file are left
\* alone.
InArticles ==
    /\ cs.valid
    /\ UNCHANGED head

\* A failure that also drops the selected article.
Fail_deselect(e) ==
    /\ error' = e
    /\ ret' = -1
    /\ curr_article' = NoNode
    /\ UNCHANGED <<arts, curr_feature, curr_variant, curr_image, curr_unit>>

\* `cs->error = e; return -1;` with nothing else touched.
Fail(e) ==
    /\ error' = e
    /\ ret' = -1
    /\ UNCHANGED <<arts, cursor>>

-----------------------------------------------------------------------------
(* ADD                                                                     *)

NewArticle(aid, title, descr) ==
    [aid |-> aid, title |-> title, descr |-> descr,
     cats |-> <<>>,
     hasImages |-> FALSE, images |-> <<>>,
     hasUnits |-> FALSE, main |-> NULL, alts |-> <<>>,
     hasFeatures |-> FALSE, feats |-> <<>>]

catner_add_article(aid, title, descr) ==
    /\ Called("add_article", aid, NULL, title, descr)
    /\ InArticles
    /\ IF xmlStrlen(aid) = 0
       THEN Fail(LIBCATNER_ERR_NO_SUCH_AID)
       ELSE IF libcatner_get_article(arts, aid) # 0
       THEN Fail(LIBCATNER_ERR_ALREADY_EXISTS)
       ELSE /\ Len(arts) < MaxArticles
            /\ arts' = Append(arts, NewArticle(aid, title, descr))
            /\ ret' = 0
            /\ UNCHANGED <<cursor, error>>


catner_add_article_image(aid, mime, path) ==
    /\ Called("add_article_image", aid, NULL, path, mime)
    /\ InArticles
    /\ LET article == ArticleArg(aid) IN
       IF article = 0
       THEN Fail(LIBCATNER_ERR_NO_SUCH_AID)
       ELSE LET images == arts[article].images IN
            \* MIME_INFO is found or created first; it is created only when
            \* the article has no image yet, and then the scan finds nothing
            IF First({i \in 1..Len(images) : images[i].path = path}) # 0
            THEN Fail(LIBCATNER_ERR_ALREADY_EXISTS)
            ELSE /\ Len(arts[article].images) < MaxImages
                 /\ arts' = [arts EXCEPT
                        ![article].hasImages = TRUE,
                        ![article].images = Append(@,
                            [mime |-> mime, path |-> path])]
                 /\ ret' = 0
                 /\ UNCHANGED <<cursor, error>>

\* The content of ORDER_UNIT after a call with the unit code c: the node is
\* created with c when the article has none (order_unit = NULL), set to c
\* when main is given, and left alone otherwise.
OrderUnit_keep(order_unit, c, main) ==
    IF order_unit = NULL THEN c ELSE order_unit

OrderUnit(order_unit, c, main) ==
    IF order_unit = NULL THEN c
    ELSE IF main THEN c
    ELSE order_unit

\* The ALTERNATIVE_UNITs after a call with the unit code c and the factor f:
\* the first one with the code c gets the factor f, and when there is none
\* a new one with c and f is appended.
AltUnits_all(alts, c, f) ==
    IF First({i \in 1..Len(alts) : alts[i].code = c}) = 0
    THEN Append(alts, [code |-> c, factor |-> f])
    ELSE [i \in 1..Len(alts) |-> [alts[i] EXCEPT !.factor = f]]

AltUnits(alts, c, f) ==
    LET alt_unit == First({i \in 1..Len(alts) : alts[i].code = c}) IN
    IF alt_unit = 0
    THEN Append(alts, [code |-> c, factor |-> f])
    ELSE [alts EXCEPT ![alt_unit].factor = f]

(* catner_add_article_unit with the ALTERNATIVE_UNIT left alone when the    *)
(* unit is made the main unit.                                             *)
catner_add_article_unit_main(aid, code, factor, main) ==
    /\ Called("add_article_unit", aid, NULL, NULL, NULL)
    /\ InArticles
    /\ LET article == ArticleArg(aid) IN
       IF article = 0
       THEN Fail(LIBCATNER_ERR_NO_SUCH_AID)
       ELSE LET c == IF code # NULL THEN code ELSE LIBCATNER_DEF_UNIT_CODE
                f == IF factor # NULL THEN factor ELSE LIBCATNER_DEF_UNIT_FACTOR
                a == arts[article]
                main_unit == OrderUnit(a.main, c, main)
                alts == IF main THEN a.alts ELSE AltUnits(a.alts, c, f)
            IN  /\ arts' = [arts EXCEPT ![article].hasUnits = TRUE,
                                        ![article].main = main_unit,
                                        ![article].alts = alts]
                /\ ret' = 0
                /\ UNCHANGED <<cursor, error>>

catner_add_article_unit(aid, code, factor, main) ==
    /\ Called("add_article_unit", aid, NULL, NULL, NULL)
    /\ InArticles
    /\ LET article == ArticleArg(aid) IN
       IF article = 0
       THEN Fail(LIBCATNER_ERR_NO_SUCH_AID)
       ELSE LET c == IF code # NULL THEN code ELSE LIBCATNER_DEF_UNIT_CODE
                f == IF factor # NULL THEN factor ELSE LIBCATNER_DEF_UNIT_FACTOR
                a == arts[article]
                main_unit == OrderUnit(a.main, c, main)
                alts == AltUnits(a.alts, c, f)
            IN  /\ arts' = [arts EXCEPT ![article].hasUnits = TRUE,
                                        ![article].main = main_unit,
                                        ![article].alts = alts]
                /\ ret' = 0
                /\ UNCHANGED <<cursor, error>>

(* catner_add_article_category without the search for the category.        *)
catner_add_article_category_always(aid, value) ==
    /\ Called("add_article_category", aid, NULL, value, NULL)
    /\ InArticles
    /\ LET article == ArticleArg(aid) IN
       IF article = 0
       THEN Fail(LIBCATNER_ERR_NO_SUCH_AID)
       ELSE /\ arts' = [arts EXCEPT ![article].cats = Append(@, value)]
            /\ ret' = 0
            /\ UNCHANGED <<cursor, error>>

catner_add_article_category(aid, value) ==
    /\ Called("add_article_category", aid, NULL, value, NULL)
    /\ InArticles
    /\ LET article == ArticleArg(aid) IN
       IF article = 0
       THEN Fail(LIBCATNER_ERR_NO_SUCH_AID)
       ELSE LET cats == arts[article].cats IN
            IF First({i \in 1..Len(cats) : cats[i] = value}) # 0
            THEN Fail(LIBCATNER_ERR_ALREADY_EXISTS)
            ELSE /\ arts' = [arts EXCEPT ![article].cats = Append(@, value)]
                 /\ ret' = 0
                 /\ UNCHANGED <<cursor, error>>

-----------------------------------------------------------------------------
(* Features and variants.                                                  *)

\* snprintf(order, 8, "%zu", n): the decimal numeral of n.
FormatOrder(n) == ToString(n)

\* libcatner_get_feature: index among the FEATUREs of the article of the
\* first one whose FID has the content fid, 0 for NULL (also when the
\* article has no ARTICLE_FEATURES).
libcatner_get_feature(article, fid) ==
    IF ~article.hasFeatures THEN 0
    ELSE First({i \in 1..Len(article.feats) : fid = NULL \/ article.feats[i].fid = fid})

\* libcatner_get_variant: likewise for the VARIANTs of a FEATURE.
libcatner_get_variant(feature, vid) ==
    IF ~feature.hasVariants THEN 0
    ELSE First({i \in 1..Len(feature.vars) : vid = NULL \/ feature.vars[i].vid = vid})

\* libcatner_num_features
libcatner_num_features(article) ==
    IF ~article.hasFeatures THEN 0 ELSE Len(article.feats)

\* The place <<article index, feature index>> of the FEATURE a pointer
\* holds, <<0, 0>> for NULL.
FeatureAt(p) ==
    IF /\ Len(p) = 2
       /\ p[1] \in 1..Len(arts)
       /\ p[2] \in 1..Len(arts[p[1]].feats)
    THEN p ELSE <<0, 0>>

\* The place <<article index, feature index, variant index>> of the VARIANT
\* a pointer holds, <<0, 0, 0>> for NULL.
VariantAt(p) ==
    IF /\ Len(p) = 3
       /\ p[1] \in 1..Len(arts)
       /\ p[2] \in 1..Len(arts[p[1]].feats)
       /\ p[3] \in 1..Len(arts[p[1]].feats[p[2]].vars)
    THEN p ELSE <<0, 0, 0>>

\* `fid ? libcatner_get_feature(article, fid) : cs->_curr_feature`: the
\* cursor's FEATURE is taken whatever article it belongs to.
FeatureArg(article, fid) ==
    IF fid # NULL
    THEN <<article, libcatner_get_feature(arts[article], fid)>>
    ELSE FeatureAt(curr_feature)

\* `vid ? libcatner_get_variant(feature, vid) : cs->_curr_variant`
VariantArg(floc, vid) ==
    IF vid # NULL
    THEN <<floc[1], floc[2],
           libcatner_get_variant(arts[floc[1]].feats[floc[2]], vid)>>
    ELSE VariantAt(curr_variant)

catner_add_feature(aid, fid, name, descr, unit, value) ==
    /\ Called("add_feature", aid, fid, NULL, value)
    /\ InArticles
    /\ LET article == ArticleArg(aid) IN
       IF article = 0
       THEN Fail(LIBCATNER_ERR_NO_SUCH_AID)
       ELSE IF libcatner_get_feature(arts[article], fid) # 0
       THEN Fail(LIBCATNER_ERR_ALREADY_EXISTS)
       ELSE LET num_features == libcatner_num_features(arts[article]) IN
            /\ num_features < MaxFeatures
            /\ arts' = [arts EXCEPT
                   ![article].hasFeatures = TRUE,
                   ![article].feats = Append(@,
                       [fid |-> fid,
                        order |-> FormatOrder(num_features + 1),
                        name |-> name, descr |-> descr, unit |-> unit,
                        value |-> value,
                        hasVariants |-> FALSE, vars |-> <<>>])]
            /\ ret' = 0
            /\ UNCHANGED <<cursor, error>>

\* The tail of catner_add_variant: a FVALUE child of the FEATURE is deleted,
\* then the VARIANT is appended to VARIANTS (found or created before).
AppendVariant_keep(feature, vid, value) ==
    [feature EXCEPT
        !.hasVariants = TRUE,
        !.vars = Append(@, [vid |-> vid, value |-> value])]

AppendVariant(feature, vid, value) ==
    [feature EXCEPT
        !.hasVariants = TRUE,
        !.value = NULL,
        !.vars = Append(@, [vid |-> vid, value |-> value])]

catner_add_variant(aid, fid, vid, value) ==
    /\ Called("add_variant", aid, fid, vid, value)
    /\ InArticles
    /\ LET article == ArticleArg(aid) IN
       IF article = 0
       THEN Fail(LIBCATNER_ERR_NO_SUCH_AID)
       ELSE LET floc == FeatureArg(article, fid) IN
       IF floc[2] = 0
       THEN Fail(LIBCATNER_ERR_NO_SUCH_FID)
       ELSE LET feature == arts[floc[1]].feats[floc[2]]
                variants == feature.vars
            IN
            \* VARIANTS is found or created first; when it is created the
            \* scan below finds nothing, so the rejected call changes nothing
            IF First({i \in 1..Len(variants) : variants[i].vid = vid}) # 0
            THEN Fail(LIBCATNER_ERR_ALREADY_EXISTS)
            ELSE /\ Len(feature.vars) < MaxVariants
                 /\ arts' = [arts EXCEPT ![floc[1]].feats[floc[2]] =
                        AppendVariant(feature, vid, value)]
                 /\ ret' = 0
                 /\ UNCHANGED <<cursor, error>>

-----------------------------------------------------------------------------
(* SET                                                                     *)

\* The content a node gets from xmlNodeSetContent or libcatner_add_child:
\* a NULL value leaves the node without text.
Content(value) == IF value = NULL THEN "" ELSE value

\* libcatner_set_child on a child that holds `field` (NULL: no such child):
\* <<the child afterwards, the value returned>>.
libcatner_set_child(field, value, add) ==
    IF field = NULL
    THEN IF add THEN <<Content(value), 0>> ELSE <<NULL, -1>>
    ELSE <<Content(value), 0>>

catner_set_article_id(aid, value) ==
    /\ Called("set_article_id", aid, NULL, NULL, value)
    /\ InArticles
    /\ IF xmlStrlen(value) = 0
       THEN Fail(LIBCATNER_ERR_INVALID_VALUE)
       ELSE LET article == ArticleArg(aid) IN
            IF article = 0
            THEN Fail(LIBCATNER_ERR_NO_SUCH_AID)
            ELSE LET r == libcatner_set_child(arts[article].aid, value, FALSE) IN
                 /\ arts' = [arts EXCEPT ![article].aid = r[1]]
                 /\ ret' = r[2]
                 /\ UNCHANGED <<cursor, error>>

\* catner_set_article_title (prop "title") and catner_set_article_descr
\* (prop "descr"): ARTICLE_DETAILS and the text node are found or created,
\* then the content is set.
catner_set_article_text(op, prop, aid, value) ==
    /\ Called(op, aid, NULL, NULL, value)
    /\ InArticles
    /\ LET article == ArticleArg(aid) IN
       IF article = 0
       THEN Fail(LIBCATNER_ERR_NO_SUCH_AID)
       ELSE /\ arts' = [arts EXCEPT ![article][prop] = Content(value)]
            /\ ret' = 0
            /\ UNCHANGED <<cursor, error>>

catner_set_article_title(aid, value) ==
    catner_set_article_text("set_article_title", "title", aid, value)

catner_set_article_descr(aid, value) ==
    catner_set_article_text("set_article_descr", "descr", aid, value)

\* prop is the field of the FEATURE that holds the child named by the
\* code's `prop`: fid (FID), name (FNAME), descr (FDESCR), unit (FUNIT),
\* value (FVALUE).
catner_set_feature_prop(op, aid, fid, prop, value, add) ==
    /\ Called(op, aid, fid, NULL, value)
    /\ InArticles
    /\ LET article == ArticleArg(aid) IN
       IF article = 0
       THEN Fail(LIBCATNER_ERR_NO_SUCH_AID)
       ELSE LET floc == FeatureArg(article, fid) IN
       IF floc[2] = 0
       THEN Fail(LIBCATNER_ERR_NO_SUCH_FID)
       ELSE LET r == libcatner_set_child(arts[floc[1]].feats[floc[2]][prop], value, add) IN
            /\ arts' = [arts EXCEPT ![floc[1]].feats[floc[2]][prop] = r[1]]
            /\ ret' = r[2]
            /\ UNCHANGED <<cursor, error>>

catner_set_feature_id(aid, fid, value) ==
    catner_set_feature_prop("set_feature_id", aid, fid, "fid", value, FALSE)

catner_set_feature_name(aid, fid, value) ==
    catner_set_feature_prop("set_feature_name", aid, fid, "name", value, TRUE)

catner_set_feature_descr(aid, fid, value) ==
    catner_set_feature_prop("set_feature_descr", aid, fid, "descr", value, TRUE)

catner_set_feature_value(aid, fid, value) ==
    catner_set_feature_prop("set_feature_value", aid, fid, "value", value, TRUE)

catner_set_variant_value(aid, fid, vid, value) ==
    /\ Called("set_variant_value", aid, fid, vid, value)
    /\ InArticles
    /\ LET article == ArticleArg(aid) IN
       IF article = 0
       THEN Fail(LIBCATNER_ERR_NO_SUCH_AID)
       ELSE LET floc == FeatureArg(article, fid) IN
       IF floc[2] = 0
       THEN Fail(LIBCATNER_ERR_NO_SUCH_FID)
       ELSE LET vloc == VariantArg(floc, vid) IN
       IF vloc[3] = 0
       THEN Fail(LIBCATNER_ERR_NO_SUCH_VID)
       ELSE LET r == libcatner_set_child(
                        arts[vloc[1]].feats[vloc[2]].vars[vloc[3]].value, value, FALSE) IN
            /\ arts' = [arts EXCEPT ![vloc[1]].feats[vloc[2]].vars[vloc[3]].value = r[1]]
            /\ ret' = r[2]
            /\ UNCHANGED <<cursor, error>>

-----------------------------------------------------------------------------
(* DEL                                                                     *)

(* catner_del_article resetting only the article cursor.                   *)
catner_del_article_feature(aid) ==
    /\ Called("del_article", aid, NULL, NULL, NULL)
    /\ InArticles
    /\ LET article == ArticleArg(aid) IN
       IF article = 0
       THEN Fail(LIBCATNER_ERR_NO_SUCH_AID)
       ELSE /\ curr_article' = IF curr_article = <<article>> THEN NoNode
                                ELSE Moved(curr_article, <<article>>)
            /\ curr_feature' = Moved(curr_feature, <<article>>)
            /\ curr_variant' = Moved(curr_variant, <<article>>)
            /\ curr_image' = Moved(curr_image, <<article>>)
            /\ curr_unit' = Moved(curr_unit, <<article>>)
            /\ arts' = RemoveAt(arts, article)
            /\ ret' = 0
            /\ UNCHANGED error

catner_del_article(aid) ==
    /\ Called("del_article", aid, NULL, NULL, NULL)
    /\ InArticles
    /\ LET article == ArticleArg(aid) IN
       IF article = 0
       THEN Fail(LIBCATNER_ERR_NO_SUCH_AID)
       ELSE /\ IF curr_article = <<article>>
               THEN /\ curr_article' = NoNode
                    /\ curr_feature' = NoNode
                    /\ curr_variant' = NoNode
                    /\ curr_image' = NoNode
               ELSE /\ curr_article' = Moved(curr_article, <<article>>)
                    /\ curr_feature' = Moved(curr_feature, <<article>>)
                    /\ curr_variant' = Moved(curr_variant, <<article>>)
                    /\ curr_image' = Moved(curr_image, <<article>>)
            \* cs->_curr_unit is not reset
            /\ curr_unit' = Moved(curr_unit, <<article>>)
            /\ arts' = RemoveAt(arts, article)
            /\ ret' = 0
            /\ UNCHANGED error

catner_del_article_category(aid, cid) ==
    /\ Called("del_article_category", aid, NULL, cid, NULL)
    /\ InArticles
    /\ LET article == ArticleArg(aid) IN
       IF article = 0
       THEN Fail(LIBCATNER_ERR_NO_SUCH_AID)
       ELSE LET cats == arts[article].cats
                cat == First({i \in 1..Len(cats) : cats[i] = cid})
            IN  IF cat = 0
                THEN Fail(LIBCATNER_ERR_NO_SUCH_NODE)
                ELSE /\ arts' = [arts EXCEPT ![article].cats = RemoveAt(@, cat)]
                     /\ ret' = 0
                     /\ UNCHANGED <<cursor, error>>

\* libcatner_get_child(images, BMECAT_NODE_ARTICLE_IMAGE_PATH, path, 0): the
\* direct children of MIME_INFO are searched for an element named
\* MIME_SOURCE with the content path.  Every child of MIME_INFO is a MIME
\* element, whose content is the text of its MIME_TYPE and MIME_SOURCE.
ImageByPath(images, path) ==
    First({i \in 1..Len(images) :
            /\ BMECAT_NODE_ARTICLE_IMAGE = BMECAT_NODE_ARTICLE_IMAGE_PATH
            /\ images[i].mime \o images[i].path = path})

catner_del_article_image(aid, path) ==
    /\ Called("del_article_image", aid, NULL, path, NULL)
    /\ InArticles
    /\ LET article == ArticleArg(aid) IN
       IF article = 0
       THEN Fail(LIBCATNER_ERR_NO_SUCH_AID)
       ELSE IF ~arts[article].hasImages
       THEN Fail(LIBCATNER_ERR_NO_SUCH_NODE)
       ELSE LET image == ImageByPath(arts[article].images, path) IN
                \* libcatner_del_node(NULL) deletes nothing; its -1 is dropped
                /\ IF image = 0
                   THEN UNCHANGED <<curr_image, arts>>
                   ELSE /\ curr_image' = IF curr_image = <<article, image>> THEN NoNode
                                         ELSE Moved(curr_image, <<article, image>>)
                        /\ arts' = [arts EXCEPT ![article].images = RemoveAt(@, image)]
                /\ ret' = 0
                /\ UNCHANGED <<curr_article, curr_feature, curr_variant, curr_unit,
                               error>>

\* libcatner_fix_feature_order on the FEATUREs of one article.
libcatner_fix_feature_order(article) ==
    IF ~article.hasFeatures THEN article
    ELSE [article EXCEPT !.feats =
            [i \in 1..Len(article.feats) |->
                [article.feats[i] EXCEPT !.order = FormatOrder(i)]]]

(* catner_del_feature resetting only the feature cursor.                   *)
catner_del_feature_variant(aid, fid) ==
    /\ Called("del_feature", aid, fid, NULL, NULL)
    /\ InArticles
    /\ LET article == ArticleArg(aid) IN
       IF article = 0
       THEN Fail(LIBCATNER_ERR_NO_SUCH_AID)
       ELSE LET floc == FeatureArg(article, fid) IN
       IF floc[2] = 0
       THEN Fail(LIBCATNER_ERR_NO_SUCH_FID)
       ELSE LET deleted == [arts EXCEPT ![floc[1]].feats = RemoveAt(@, floc[2])]
            IN  /\ curr_feature' = IF curr_feature = floc THEN NoNode
                                    ELSE Moved(curr_feature, floc)
                /\ curr_variant' = Moved(curr_variant, floc)
                /\ arts' = [deleted EXCEPT ![article] = libcatner_fix_feature_order(@)]
                /\ ret' = 0
                /\ UNCHANGED <<curr_article, curr_image, curr_unit, error>>

catner_del_feature(aid, fid) ==
    /\ Called("del_feature", aid, fid, NULL, NULL)
    /\ InArticles
    /\ LET article == ArticleArg(aid) IN
       IF article = 0
       THEN Fail(LIBCATNER_ERR_NO_SUCH_AID)
       ELSE LET floc == FeatureArg(article, fid) IN
       IF floc[2] = 0
       THEN Fail(LIBCATNER_ERR_NO_SUCH_FID)
       ELSE LET deleted == [arts EXCEPT ![floc[1]].feats = RemoveAt(@, floc[2])]
            IN  /\ IF curr_feature = floc
                   THEN /\ curr_feature' = NoNode
                        /\ curr_variant' = NoNode
                   ELSE /\ curr_feature' = Moved(curr_feature, floc)
                        /\ curr_variant' = Moved(curr_variant, floc)
                \* the article given by the call is renumbered, which is not
                \* the FEATURE's own when the FEATURE came from the cursor
                /\ arts' = [deleted EXCEPT ![article] = libcatner_fix_feature_order(@)]
                /\ ret' = 0
                /\ UNCHANGED <<curr_article, curr_image, curr_unit, error>>

catner_del_variant(aid, fid, vid) ==
    /\ Called("del_variant", aid, fid, vid, NULL)
    /\ InArticles
    /\ LET article == ArticleArg(aid) IN
       IF article = 0
       THEN Fail(LIBCATNER_ERR_NO_SUCH_AID)
       ELSE LET floc == FeatureArg(article, fid) IN
       IF floc[2] = 0
       THEN Fail(LIBCATNER_ERR_NO_SUCH_FID)
       ELSE LET vloc == VariantArg(floc, vid) IN
       IF vloc[3] = 0
       THEN Fail(LIBCATNER_ERR_NO_SUCH_VID)
       ELSE /\ curr_variant' = IF curr_variant = vloc THEN NoNode
                                ELSE Moved(curr_variant, vloc)
            /\ arts' = [arts EXCEPT ![vloc[1]].feats[vloc[2]].vars = RemoveAt(@, vloc[3])]
            /\ ret' = 0
            /\ UNCHANGED <<curr_article, curr_feature, curr_image, curr_unit,
                           error>>

-----------------------------------------------------------------------------
(* SEL                                                                     *)

catner_sel_article(aid) ==
    /\ Called("sel_article", aid, NULL, NULL, NULL)
    /\ InArticles
    /\ LET article == libcatner_get_article(arts, aid) IN
       IF article = 0
       THEN Fail(LIBCATNER_ERR_NO_SUCH_NODE)
       ELSE /\ IF curr_article # <<article>>
               THEN /\ curr_article' = <<article>>
                    /\ curr_feature' = NoNode
                    /\ curr_variant' = NoNode
                    /\ curr_image' = NoNode
                    /\ curr_unit' = NoNode
               ELSE UNCHANGED cursor
            /\ ret' = 0
            /\ UNCHANGED <<arts, error>>

(* catner_sel_feature without the reset of the variant cursor.             *)
catner_sel_feature_keep(fid) ==
    /\ Called("sel_feature", NULL, fid, NULL, NULL)
    /\ InArticles
    /\ LET article == ArticleAt(curr_article) IN
       IF curr_article = NoNode
       THEN Fail(LIBCATNER_ERR_NO_SEL_ARTICLE)
       ELSE LET feature == libcatner_get_feature(arts[article], fid) IN
       IF feature = 0
       THEN Fail(LIBCATNER_ERR_NO_SUCH_NODE)
       ELSE /\ curr_feature' = <<article, feature>>
            /\ ret' = 0
            /\ UNCHANGED <<arts, curr_article, curr_variant, curr_image,
                           curr_unit, error>>

catner_sel_feature(fid) ==
    /\ Called("sel_feature", NULL, fid, NULL, NULL)
    /\ InArticles
    /\ LET article == ArticleAt(curr_article) IN
       IF curr_article = NoNode
       THEN Fail(LIBCATNER_ERR_NO_SEL_ARTICLE)
       ELSE LET feature == libcatner_get_feature(arts[article], fid) IN
       IF feature = 0
       THEN Fail(LIBCATNER_ERR_NO_SUCH_NODE)
       ELSE /\ IF curr_feature # <<article, feature>>
               THEN /\ curr_feature' = <<article, feature>>
                    /\ curr_variant' = NoNode
               ELSE UNCHANGED <<curr_feature, curr_variant>>
            /\ ret' = 0
            /\ UNCHANGED <<arts, curr_article, curr_image, curr_unit, error>>

\* parent->children: the first of the nodes s below the place parent,
\* NULL when s is empty.
FirstChild(parent, s) == IF Len(s) = 0 THEN NoNode ELSE Append(parent, 1)

catner_sel_first_variant ==
    /\ Called("sel_first_variant", NULL, NULL, NULL, NULL)
    /\ InArticles
    /\ LET floc == FeatureAt(curr_feature) IN
       IF curr_feature = NoNode
       THEN Fail(LIBCATNER_ERR_NO_SEL_FEATURE)
       ELSE IF ~arts[floc[1]].feats[floc[2]].hasVariants
       THEN Fail(LIBCATNER_ERR_NO_SUCH_NODE)
       ELSE LET first == FirstChild(floc, arts[floc[1]].feats[floc[2]].vars) IN
            /\ curr_variant' = first
            /\ error' = IF first = NoNode THEN LIBCATNER_ERR_NO_SUCH_NODE ELSE error
            /\ ret' = IF first = NoNode THEN -1 ELSE 0
            /\ UNCHANGED <<arts, curr_article, curr_feature, curr_image, curr_unit>>

catner_sel_first_image ==
    /\ Called("sel_first_image", NULL, NULL, NULL, NULL)
    /\ InArticles
    /\ LET article == ArticleAt(curr_article) IN
       IF curr_article = NoNode
       THEN Fail(LIBCATNER_ERR_NO_SEL_ARTICLE)
       ELSE IF ~arts[article].hasImages
       THEN Fail(LIBCATNER_ERR_NO_SUCH_NODE)
       ELSE LET first == FirstChild(<<article>>, arts[article].images) IN
            /\ curr_image' = first
            /\ error' = IF first = NoNode THEN LIBCATNER_ERR_NO_SUCH_NODE ELSE error
            /\ ret' = IF first = NoNode THEN -1 ELSE 0
            /\ UNCHANGED <<arts, curr_article, curr_feature, curr_variant, curr_unit>>

catner_sel_first_unit ==
    /\ Called("sel_first_unit", NULL, NULL, NULL, NULL)
    /\ InArticles
    /\ LET article == ArticleAt(curr_article) IN
       IF curr_article = NoNode
       THEN Fail(LIBCATNER_ERR_NO_SEL_ARTICLE)
       ELSE IF ~arts[article].hasUnits
       THEN Fail(LIBCATNER_ERR_NO_SUCH_NODE)
       ELSE LET first == FirstChild(<<article>>, arts[article].alts) IN
            /\ curr_unit' = first
            /\ error' = IF first = NoNode THEN LIBCATNER_ERR_NO_SUCH_NODE ELSE error
            /\ ret' = IF first = NoNode THEN -1 ELSE 0
            /\ UNCHANGED <<arts, curr_article, curr_feature, curr_variant, curr_image>>

(* libcatner_next_node returning the node itself at the last sibling.      *)
libcatner_next_node_last(node, n) ==
    IF node[Len(node)] < n THEN [node EXCEPT ![Len(node)] = @ + 1] ELSE node

\* libcatner_next_node(node): the next sibling of the node's kind, NULL
\* after the last of the n siblings.
libcatner_next_node(node, n) ==
    IF node[Len(node)] < n THEN [node EXCEPT ![Len(node)] = @ + 1] ELSE NoNode

\* The end of the operations that move a cursor: a cursor that became NULL
\* is LIBCATNER_ERR_NO_SUCH_NODE and -1.
Selected(node) ==
    /\ error' = IF node = NoNode THEN LIBCATNER_ERR_NO_SUCH_NODE ELSE error
    /\ ret' = IF node = NoNode THEN -1 ELSE 0

catner_sel_first_article ==
    /\ Called("sel_first_article", NULL, NULL, NULL, NULL)
    /\ InArticles
    /\ LET first == FirstChild(<<>>, arts) IN
       /\ IF curr_article # first
          THEN /\ curr_article' = first
               /\ curr_feature' = NoNode
               /\ curr_variant' = NoNode
               /\ curr_image' = NoNode
               /\ curr_unit' = NoNode
          ELSE UNCHANGED cursor
       /\ Selected(first)
    /\ UNCHANGED arts

\* A step to the next article that keeps the other four cursors.
catner_sel_next_article_keep ==
    /\ Called("sel_next_article", NULL, NULL, NULL, NULL)
    /\ InArticles
    /\ IF curr_article = NoNode
       THEN Fail(LIBCATNER_ERR_NO_SEL_ARTICLE)
       ELSE LET next == libcatner_next_node(curr_article, Len(arts)) IN
            /\ curr_article' = next
            /\ UNCHANGED <<curr_feature, curr_variant, curr_image, curr_unit>>
            /\ Selected(next)
            /\ UNCHANGED arts

catner_sel_next_article ==
    /\ Called("sel_next_article", NULL, NULL, NULL, NULL)
    /\ InArticles
    /\ IF curr_article = NoNode
       THEN Fail(LIBCATNER_ERR_NO_SEL_ARTICLE)
       ELSE LET next == libcatner_next_node(curr_article, Len(arts)) IN
            /\ curr_article' = next
            /\ curr_feature' = NoNode
            /\ curr_variant' = NoNode
            /\ curr_image' = NoNode
            /\ curr_unit' = NoNode
            /\ Selected(next)
            /\ UNCHANGED arts

(* catner_sel_first_feature reporting a missing article as a missing node. *)
catner_sel_first_feature_node ==
    /\ Called("sel_first_feature", NULL, NULL, NULL, NULL)
    /\ InArticles
    /\ LET article == ArticleAt(curr_article) IN
       IF curr_article = NoNode \/ ~arts[article].hasFeatures
       THEN Fail(LIBCATNER_ERR_NO_SUCH_NODE)
       ELSE LET first == FirstChild(<<article>>, arts[article].feats) IN
            /\ IF curr_feature # first
               THEN /\ curr_feature' = first
                    /\ curr_variant' = NoNode
               ELSE UNCHANGED <<curr_feature, curr_variant>>
            /\ Selected(first)
            /\ UNCHANGED <<arts, curr_article, curr_image, curr_unit>>

catner_sel_first_feature ==
    /\ Called("sel_first_feature", NULL, NULL, NULL, NULL)
    /\ InArticles
    /\ LET article == ArticleAt(curr_article) IN
       IF curr_article = NoNode
       THEN Fail(LIBCATNER_ERR_NO_SEL_ARTICLE)
       ELSE IF ~arts[article].hasFeatures
       THEN Fail(LIBCATNER_ERR_NO_SUCH_NODE)
       ELSE LET first == FirstChild(<<article>>, arts[article].feats) IN
            /\ IF curr_feature # first
               THEN /\ curr_feature' = first
                    /\ curr_variant' = NoNode
               ELSE UNCHANGED <<curr_feature, curr_variant>>
            /\ Selected(first)
            /\ UNCHANGED <<arts, curr_article, curr_image, curr_unit>>

catner_sel_next_feature ==
    /\ Called("sel_next_feature", NULL, NULL, NULL, NULL)
    /\ InArticles
    /\ IF curr_feature = NoNode
       THEN Fail(LIBCATNER_ERR_NO_SEL_FEATURE)
       ELSE LET next == libcatner_next_node(curr_feature,
                            Len(arts[curr_feature[1]].feats)) IN
            /\ curr_feature' = next
            /\ curr_variant' = NoNode
            /\ Selected(next)
            /\ UNCHANGED <<arts, curr_article, curr_image, curr_unit>>

catner_sel_next_variant ==
    /\ Called("sel_next_variant", NULL, NULL, NULL, NULL)
    /\ InArticles
    /\ IF curr_variant = NoNode
       THEN Fail(LIBCATNER_ERR_NO_SEL_VARIANT)
       ELSE LET next == libcatner_next_node(curr_variant,
                            Len(arts[curr_variant[1]].feats[curr_variant[2]].vars)) IN
            /\ curr_variant' = next
            /\ Selected(next)
            /\ UNCHANGED <<arts, curr_article, curr_feature, curr_image, curr_unit>>

catner_sel_next_image ==
    /\ Called("sel_next_image", NULL, NULL, NULL, NULL)
    /\ InArticles
    /\ IF curr_image = NoNode
       THEN Fail(LIBCATNER_ERR_NO_SEL_IMAGE)
       ELSE LET next == libcatner_next_node(curr_image,
                            Len(arts[curr_image[1]].images)) IN
            /\ curr_image' = next
            /\ Selected(next)
            /\ UNCHANGED <<arts, curr_article, curr_feature, curr_variant, curr_unit>>

\* cs->_curr_unit may point to a unit of an article that was deleted; what
\* libcatner_next_node reads from the freed node is then anything: NULL or
\* a pointer that is not NULL.
catner_sel_next_unit ==
    /\ Called("sel_next_unit", NULL, NULL, NULL, NULL)
    /\ InArticles
    /\ IF curr_unit = NoNode
       THEN Fail(LIBCATNER_ERR_NO_SEL_UNIT)
       ELSE \E next \in IF curr_unit = Dangling THEN {NoNode, Dangling}
                         ELSE {libcatner_next_node(curr_unit,
                                   Len(arts[curr_unit[1]].alts))} :
            /\ curr_unit' = next
            /\ Selected(next)
            /\ UNCHANGED <<arts, curr_article, curr_feature, curr_variant, curr_image>>

-----------------------------------------------------------------------------
(* HEADER and CATALOG                                                      *)

\* A call on a handle that works outside T_NEW_CATALOG.
InHeader ==
    /\ cs.valid
    /\ UNCHANGED <<arts, cursor>>

\* The LOCALE children of CATALOG after
\* libcatner_set_child(cs->catalog, BMECAT_NODE_LOCALE, value, 1): the first
\* LOCALE takes the value, and one is added when there is none.
SetLocale_add(locales, value) == Append(locales, Content(value))

SetLocale(locales, value) ==
    IF locales = <<>>
    THEN <<libcatner_set_child(NULL, value, TRUE)[1]>>
    ELSE [locales EXCEPT ![1] = libcatner_set_child(@, value, TRUE)[1]]

catner_set_locale(value) ==
    /\ Called("set_locale", NULL, NULL, NULL, value)
    /\ InHeader
    /\ UNCHANGED <<cs, file, buf>>
    /\ IF xmlStrlen(value) # 2
       THEN /\ error' = LIBCATNER_ERR_INVALID_VALUE
            /\ ret' = -1
            /\ UNCHANGED doc
       ELSE /\ doc' = [doc EXCEPT !.locales = SetLocale(@, value)]
            /\ ret' = 0
            /\ UNCHANGED error

\* The TERRITORY children of CATALOG after
\* libcatner_get_child(cs->catalog, BMECAT_NODE_TERRITORY, value, 1): a
\* TERRITORY with the content value is searched and added when none is found.
AddTerritory_always(territories, value) == Append(territories, value)

AddTerritory(territories, value) ==
    IF First({i \in 1..Len(territories) : territories[i] = value}) # 0
    THEN territories
    ELSE Append(territories, value)

catner_add_territory(value) ==
    /\ Called("add_territory", NULL, NULL, NULL, value)
    /\ InHeader
    /\ UNCHANGED <<cs, file, buf>>
    /\ IF xmlStrlen(value) # 2
       THEN /\ error' = LIBCATNER_ERR_INVALID_VALUE
            /\ ret' = -1
            /\ UNCHANGED doc
       ELSE /\ doc' = [doc EXCEPT !.territories = AddTerritory(@, value)]
            /\ ret' = 0
            /\ UNCHANGED error

\* libcatner_num_children(cs->catalog, BMECAT_NODE_TERRITORY, NULL)
catner_num_territories == Len(doc.territories)

\* The one file of the model.
FilePath == "catalog.xml"

\* xmlSaveFormatFileEnc(path, cs->doc, ...): the file holds the elements of
\* the document and their text; the result is the number of bytes written.
catner_write_xml(path) ==
    /\ Called("write_xml", NULL, NULL, NULL, path)
    /\ InHeader
    /\ file' = IF path = FilePath THEN <<[doc |-> doc, arts |-> arts]>> ELSE file
    /\ ret' = 1
    /\ UNCHANGED <<doc, cs, buf, error>>

\* catner_save: writes to the path the document was loaded from; without
\* one it returns -1 and touches nothing, cs->error included.
catner_save ==
    /\ Called("save", NULL, NULL, NULL, NULL)
    /\ InHeader
    /\ IF cs.path = NULL
       THEN /\ ret' = -1
            /\ UNCHANGED <<doc, cs, file, buf, error>>
       ELSE /\ file' = IF cs.path = FilePath THEN <<[doc |-> doc, arts |-> arts]>>
                       ELSE file
            /\ ret' = 1
            /\ UNCHANGED <<doc, cs, buf, error>>

\* catner_init: a new handle on a new document.
catner_init ==
    /\ call' = [op |-> "init", a |-> NULL, f |-> NULL, v |-> NULL, x |-> NULL]
    /\ pre' = [arts |-> <<>>, cursor |-> <<NoNode, NoNode, NoNode, NoNode, NoNode>>,
               doc |-> FreshDoc]
    /\ arts' = <<>>
    /\ curr_article' = NoNode
    /\ curr_feature' = NoNode
    /\ curr_variant' = NoNode
    /\ curr_image' = NoNode
    /\ curr_unit' = NoNode
    /\ error' = LIBCATNER_ERR_NONE
    /\ ret' = 0
    /\ doc' = FreshDoc
    /\ cs' = FreshState
    /\ UNCHANGED <<file, buf>>

\* libcatner_get_root(doc, create): the document afterwards.  A document
\* without a root element gets the BMECAT root when create is set; a root
\* element of another name is left as it is.
libcatner_get_root(d, create) ==
    IF d.root = NULL /\ create THEN [d EXCEPT !.root = BMECAT_NODE_ROOT] ELSE d

\* libcatner_get_generator(header, 0): the first GENERATOR_INFO of HEADER
\* whose content is "", 0 for NULL.
libcatner_get_generator(generators) ==
    First({i \in 1..Len(generators) : generators[i] = ""})

\* catner_load(path, amend) on a file that parses to the document f.doc with
\* the articles f.arts: binds root, HEADER, T_NEW_CATALOG and CATALOG in this
\* order, each with libcatner_get_child(parent, name, NULL, amend), and gives
\* up at the first that is NULL; then looks up the generator.  call.x
\* records amend, pre the document as it was parsed.
catner_load(f, amend) ==
    LET d1 == libcatner_get_root(f.doc, amend)
        root == d1.root = BMECAT_NODE_ROOT
        d2 == IF root /\ ~d1.header /\ amend THEN [d1 EXCEPT !.header = TRUE] ELSE d1
        header == root /\ d2.header
        d3 == IF header /\ ~d2.articles /\ amend THEN [d2 EXCEPT !.articles = TRUE]
              ELSE d2
        articles == header /\ d3.articles
        d4 == IF articles /\ ~d3.catalog /\ amend THEN [d3 EXCEPT !.catalog = TRUE]
              ELSE d3
        catalog == articles /\ d4.catalog
    IN  /\ call' = [op |-> "load", a |-> NULL, f |-> NULL, v |-> NULL,
                    x |-> IF amend THEN "1" ELSE "0"]
        /\ pre' = [arts |-> f.arts, cursor |-> cursor, doc |-> f.doc]
        /\ doc' = d4
        /\ arts' = f.arts
        /\ cs' = [valid |-> catalog, root |-> root, header |-> header,
                  articles |-> articles, catalog |-> catalog,
                  generator |-> IF catalog
                                THEN libcatner_get_generator(d4.generators)
                                ELSE 0,
                  path |-> FilePath]
        /\ curr_article' = NoNode
        /\ curr_feature' = NoNode
        /\ curr_variant' = NoNode
        /\ curr_image' = NoNode
        /\ curr_unit' = NoNode
        /\ error' = LIBCATNER_ERR_NONE
        /\ ret' = 0
        /\ UNCHANGED <<file, buf>>

\* libcatner.c:461-477.  The new node is not kept in cs->generator, so the
\* test of cs->generator sees only a node that catner_set_generator or
\* catner_load has bound.
catner_add_generator(value) ==
    /\ Called("add_generator", NULL, NULL, NULL, value)
    /\ InHeader
    /\ IF cs.generator # 0
       THEN /\ error' = LIBCATNER_ERR_ALREADY_EXISTS
            /\ ret' = -1
            /\ UNCHANGED doc
       ELSE /\ Len(doc.generators) < MaxGenerators
            /\ doc' = [doc EXCEPT !.generators = Append(@, Content(value))]
            /\ ret' = 0
            /\ UNCHANGED error
    /\ UNCHANGED <<cs, file, buf>>

\* catner_set_generator: the GENERATOR_INFO the handle is bound to takes the
\* value; without one, a GENERATOR_INFO is added to HEADER and bound.
catner_set_generator(value) ==
    /\ Called("set_generator", NULL, NULL, NULL, value)
    /\ InHeader
    /\ IF cs.generator = 0
       THEN /\ Len(doc.generators) < MaxGenerators
            /\ doc' = [doc EXCEPT !.generators = Append(@, Content(value))]
            /\ cs' = [cs EXCEPT !.generator = Len(doc.generators) + 1]
       ELSE IF cs.generator = FreedGenerator
       THEN \* xmlNodeSetContent writes to freed memory: no node of the
            \* document takes the value.
            UNCHANGED <<doc, cs>>
       ELSE /\ doc' = [doc EXCEPT !.generators[cs.generator] = Content(value)]
            /\ UNCHANGED cs
    /\ ret' = 0
    /\ UNCHANGED <<file, buf, error>>

\* catner_del_generator: the GENERATOR_INFO the handle is bound to is
\* unlinked and freed, and cs->generator keeps pointing to it.  With
\* cs->generator NULL libcatner_del_node returns -1, which is dropped; with
\* cs->generator freed the node is freed a second time.
catner_del_generator ==
    /\ Called("del_generator", NULL, NULL, NULL, NULL)
    /\ InHeader
    /\ IF cs.generator \in DOMAIN doc.generators
       THEN /\ doc' = [doc EXCEPT !.generators = RemoveAt(@, cs.generator)]
            /\ cs' = [cs EXCEPT !.generator = FreedGenerator]
       ELSE UNCHANGED <<doc, cs>>
    /\ ret' = 0
    /\ UNCHANGED <<file, buf, error>>

\* catner_last_error: hands out cs->error and resets it.
catner_last_error_keep ==
    /\ Called("last_error", NULL, NULL, NULL, NULL)
    /\ cs.valid
    /\ ret' = error
    /\ UNCHANGED <<error, arts, cursor, head>>

catner_last_error ==
    /\ Called("last_error", NULL, NULL, NULL, NULL)
    /\ cs.valid
    /\ ret' = error
    /\ error' = LIBCATNER_ERR_NONE
    /\ UNCHANGED <<arts, cursor, head>>

-----------------------------------------------------------------------------
(* GET                                                                     *)

\* A string as the bytes of a C string, without the terminator.
Bytes(s) == [i \in 1..Len(s) |-> SubSeq(s, i, i)]

\* The C string a buffer holds: the bytes before the first null byte.
CString(mem) ==
    LET n == First({i \in 1..Len(mem) : mem[i] = NUL}) IN
    IF n = 0 THEN mem ELSE SubSeq(mem, 1, n - 1)

\* strncpy(dest, src, n): the first n bytes of dest are those of src, and
\* null bytes once src is exhausted.
strncpy(dest, src, n) ==
    [i \in 1..Len(dest) |->
        IF i > n THEN dest[i]
        ELSE IF i <= Len(src) THEN SubSeq(src, i, i)
        ELSE NUL]

\* libcatner_cpy_content(node, buf, len) for a node with the text content
\* (NULL for a NULL node): <<the memory afterwards, the value returned>>.
libcatner_cpy_content_short(content, mem, len) ==
    IF content = NULL
    THEN <<[mem EXCEPT ![1] = NUL], 0>>
    ELSE LET content_len == xmlStrlen(content) + 1
             copy_len == IF content_len > len THEN len ELSE content_len
         IN  <<[strncpy(mem, content, copy_len) EXCEPT ![copy_len] = NUL],
               copy_len>>

libcatner_cpy_content(content, mem, len) ==
    IF content = NULL
    THEN <<[mem EXCEPT ![1] = NUL], 0>>
    ELSE LET content_len == xmlStrlen(content) + 1
             copy_len == IF content_len > len THEN len ELSE content_len
         IN  <<[strncpy(mem, content, copy_len) EXCEPT ![copy_len] = NUL],
               content_len>>

\* A getter's last step: the node's content goes to the caller's buffer of
\* len bytes, the result is the getter's.
Copied(content, len) ==
    LET r == libcatner_cpy_content(content, Memory(len, Garbage), len) IN
    /\ buf' = [node |-> content, mem |-> r[1], len |-> len, fill |-> Garbage]
    /\ ret' = r[2]

\* catner_get_generator: the content of the GENERATOR_INFO the handle is
\* bound to.
catner_get_generator(len) ==
    /\ Called("get_generator", NULL, NULL, NULL, NULL)
    /\ InHeader
    /\ IF cs.generator = FreedGenerator
       THEN \* the read of a freed node finds any text, or none
            \E content \in Generators \cup {NULL} : Copied(content, len)
       ELSE Copied(IF cs.generator = 0 THEN NULL
                   ELSE doc.generators[cs.generator], len)
    /\ UNCHANGED <<doc, cs, file, error>>

\* libcatner_get_child(article, name, NULL, 0) for the names the getters
\* ask for: the content of the first child of ARTICLE with this name, NULL
\* without one.  The children of ARTICLE are SUPPLIER_AID, ARTICLE_DETAILS,
\* ARTICLE_ORDER_DETAILS, ARTICLE_REFERENCE, MIME_INFO and ARTICLE_FEATURES;
\* DESCRIPTION_SHORT and DESCRIPTION_LONG are children of ARTICLE_DETAILS.
ArticleChild(article, name) ==
    IF name = BMECAT_NODE_ARTICLE_ID THEN article.aid ELSE NULL

\* catner_get_article_title and catner_get_article_descr
catner_get_article_text(op, name, aid, len) ==
    /\ Called(op, aid, NULL, NULL, NULL)
    /\ cs.valid
    /\ LET article == ArticleArg(aid) IN
       Copied(IF article = 0 THEN NULL ELSE ArticleChild(arts[article], name), len)
    /\ UNCHANGED <<arts, cursor, error, doc, cs, file>>

catner_get_article_title(aid, len) ==
    catner_get_article_text("get_article_title", BMECAT_NODE_ARTICLE_TITLE, aid, len)

catner_get_article_descr(aid, len) ==
    catner_get_article_text("get_article_descr", BMECAT_NODE_ARTICLE_DESCR, aid, len)

\* strncat(dest, src, n): at most n bytes of src are written where the
\* string in dest ends, and a null byte after them.
strncat(dest, src, n) ==
    LET k == First({i \in 1..Len(dest) : dest[i] = NUL})
        m == IF Len(src) < n THEN Len(src) ELSE n
    IN  [i \in 1..Len(dest) |->
            IF i >= k /\ i < k + m THEN SubSeq(src, i - k + 1, i - k + 1)
            ELSE IF i = k + m THEN NUL
            ELSE dest[i]]

\* The loop of catner_get_territories and catner_get_article_categories
\* over the entries still to visit: <<the memory afterwards, the value
\* returned>>.  An entry that would exceed the buffer is skipped, its
\* length still being added to req_len.
RECURSIVE JoinList(_, _, _, _, _)
JoinList(entries, mem, len, cur_len, req_len) ==
    IF entries = <<>>
    THEN <<[mem EXCEPT ![cur_len + 1] = NUL], req_len + 1>>
    ELSE LET t_str == Head(entries)
             t_len == Len(t_str)
             req == req_len + t_len + (IF cur_len # 0 THEN 1 ELSE 0)
         IN  IF req + 1 > len
             THEN JoinList(Tail(entries), mem, len, cur_len, req)
             ELSE JoinList(Tail(entries),
                           strncat(IF cur_len # 0 THEN strncat(mem, ",", 1) ELSE mem,
                                   t_str, t_len),
                           len, req, req)

\* `buf[0] = '\0';` on the caller's buffer of len bytes.
EmptyString(len) == [Memory(len, Garbage) EXCEPT ![1] = NUL]

catner_get_territories(len) ==
    /\ Called("get_territories", NULL, NULL, NULL, NULL)
    /\ InHeader
    /\ LET r == JoinList(doc.territories, EmptyString(len), len, 0, 0) IN
       /\ buf' = [node |-> NULL, mem |-> r[1], len |-> len, fill |-> Garbage]
       /\ ret' = r[2]
    /\ UNCHANGED <<doc, cs, file, error>>

catner_get_article_categories(aid, len) ==
    /\ Called("get_article_categories", aid, NULL, NULL, NULL)
    /\ cs.valid
    /\ LET article == ArticleArg(aid)
           r == IF article = 0 THEN <<EmptyString(len), 0>>
                ELSE JoinList([i \in 1..Len(arts[article].cats) |->
                                  Content(arts[article].cats[i])],
                              EmptyString(len), len, 0, 0)
       IN  /\ buf' = [node |-> NULL, mem |-> r[1], len |-> len, fill |-> Garbage]
           /\ ret' = r[2]
    /\ UNCHANGED <<arts, cursor, error, doc, cs, file>>

\* libcatner_cpy_content on the buffer and content the caller holds.
CopyContent ==
    /\ Called("cpy_content", NULL, NULL, NULL, NULL)
    /\ LET r == libcatner_cpy_content(buf.node, buf.mem, buf.len) IN
       /\ buf' = [buf EXCEPT !.mem = r[1]]
       /\ ret' = r[2]
    /\ UNCHANGED <<arts, cursor, error, doc, cs, file>>

-----------------------------------------------------------------------------
(* Specifications.  Each drives the handle with the calls of one part of   *)
(* the interface; a key argument is a key or NULL (take the cursor's).     *)

AidKeys == AIDs \cup {NULL}
FidKeys == FIDs \cup {NULL}
VidKeys == VIDs \cup {NULL}

\* The article registry: articles are added, renamed, selected and deleted.
ArticleTexts == {<<NULL, NULL>>, <<"s", "d">>, <<"t", "e">>}

NextArticles ==
    \/ \E aid \in AIDs \cup {""}, td \in ArticleTexts :
            catner_add_article(aid, td[1], td[2]) /\ UNCHANGED unit_calls
    \/ \E aid \in AidKeys, value \in AIDs \cup {""} :
            catner_set_article_id(aid, value) /\ UNCHANGED unit_calls
    \/ \E aid \in AidKeys : catner_del_article(aid) /\ UNCHANGED unit_calls
    \/ \E aid \in AIDs : catner_sel_article(aid) /\ UNCHANGED unit_calls

SpecArticles == Init /\ [][NextArticles]_vars

\* Feature order: two articles whose features are added, selected and
\* deleted, by key and through the cursors.
NextOrder ==
    \/ \E aid \in AIDs : catner_add_article(aid, NULL, NULL) /\ UNCHANGED unit_calls
    \/ \E aid \in AIDs : catner_sel_article(aid) /\ UNCHANGED unit_calls
    \/ \E aid \in AidKeys, fid \in FIDs :
            catner_add_feature(aid, fid, NULL, NULL, NULL, NULL) /\ UNCHANGED unit_calls
    \/ \E aid \in AidKeys, fid \in FidKeys :
            catner_del_feature(aid, fid) /\ UNCHANGED unit_calls
    \/ \E fid \in FIDs : catner_sel_feature(fid) /\ UNCHANGED unit_calls

SpecOrder == Init /\ [][NextOrder]_vars

\* Feature values and variants: one feature of one article gets values and
\* variants, by key and through the cursors.
NextVariants ==
    \/ catner_add_article("A", NULL, NULL) /\ UNCHANGED unit_calls
    \/ catner_sel_article("A") /\ UNCHANGED unit_calls
    \/ \E aid \in {"A", NULL}, value \in {NULL, "s"} :
            catner_add_feature(aid, "F", NULL, NULL, NULL, value) /\ UNCHANGED unit_calls
    \/ catner_sel_feature("F") /\ UNCHANGED unit_calls
    \/ \E aid \in {"A", NULL}, fid \in {"F", NULL}, vid \in VIDs :
            catner_add_variant(aid, fid, vid, "x") /\ UNCHANGED unit_calls
    \/ \E aid \in {"A", NULL}, fid \in {"F", NULL} :
            catner_set_feature_value(aid, fid, "t") /\ UNCHANGED unit_calls
    \/ \E aid \in {"A", NULL}, fid \in {"F", NULL}, vid \in VidKeys :
            catner_del_variant(aid, fid, vid) /\ UNCHANGED unit_calls
    \/ catner_sel_first_variant /\ UNCHANGED unit_calls

SpecVariants == Init /\ [][NextVariants]_vars

\* The cursors: the nodes of two articles are added and selected through
\* the cursors, and articles are deleted by key and through the cursor.
NextCursor ==
    \/ \E aid \in AIDs : catner_add_article(aid, NULL, NULL) /\ UNCHANGED unit_calls
    \/ \E aid \in AIDs : catner_sel_article(aid) /\ UNCHANGED unit_calls
    \/ catner_add_feature(NULL, "F", NULL, NULL, NULL, NULL) /\ UNCHANGED unit_calls
    \/ catner_sel_feature("F") /\ UNCHANGED unit_calls
    \/ catner_add_variant(NULL, NULL, "V", "x") /\ UNCHANGED unit_calls
    \/ catner_sel_first_variant /\ UNCHANGED unit_calls
    \/ catner_add_article_image(NULL, "image/jpg", "p") /\ UNCHANGED unit_calls
    \/ catner_sel_first_image /\ UNCHANGED unit_calls
    \/ catner_add_article_unit(NULL, NULL, NULL, FALSE) /\ UNCHANGED unit_calls
    \/ catner_sel_first_unit /\ UNCHANGED unit_calls
    \/ \E aid \in AidKeys : catner_del_article(aid) /\ UNCHANGED unit_calls

SpecCursor == Init /\ [][NextCursor]_vars

\* Walking the articles: two articles, the first with a feature, a variant,
\* an image and a unit to select; articles are selected by key, by walking
\* and deleted by key and through the cursor.
NextArticleWalk ==
    \/ \E aid \in AIDs : catner_add_article(aid, NULL, NULL) /\ UNCHANGED unit_calls
    \/ \E aid \in AIDs : catner_sel_article(aid) /\ UNCHANGED unit_calls
    \/ catner_sel_first_article /\ UNCHANGED unit_calls
    \/ catner_sel_next_article /\ UNCHANGED unit_calls
    \/ \E aid \in {"A", NULL} :
            catner_add_feature(aid, "F", NULL, NULL, NULL, NULL) /\ UNCHANGED unit_calls
    \/ catner_sel_feature("F") /\ UNCHANGED unit_calls
    \/ catner_sel_first_feature /\ UNCHANGED unit_calls
    \/ catner_sel_next_feature /\ UNCHANGED unit_calls
    \/ catner_add_variant("A", "F", "V", "x") /\ UNCHANGED unit_calls
    \/ catner_sel_first_variant /\ UNCHANGED unit_calls
    \/ catner_add_article_image("A", "image/jpg", "p") /\ UNCHANGED unit_calls
    \/ catner_sel_first_image /\ UNCHANGED unit_calls
    \/ catner_add_article_unit("A", NULL, NULL, FALSE) /\ UNCHANGED unit_calls
    \/ catner_sel_first_unit /\ UNCHANGED unit_calls
    \/ \E aid \in AidKeys : catner_del_article(aid) /\ UNCHANGED unit_calls

SpecArticleWalk == Init /\ [][NextArticleWalk]_vars

\* Walking the features of one article: two features, the first with
\* variants, and an image and a unit to select.
NextFeatureWalk ==
    \/ catner_add_article("A", NULL, NULL) /\ UNCHANGED unit_calls
    \/ catner_sel_article("A") /\ UNCHANGED unit_calls
    \/ \E fid \in FIDs :
            catner_add_feature("A", fid, NULL, NULL, NULL, NULL) /\ UNCHANGED unit_calls
    \/ \E fid \in FIDs : catner_sel_feature(fid) /\ UNCHANGED unit_calls
    \/ catner_sel_first_feature /\ UNCHANGED unit_calls
    \/ catner_sel_next_feature /\ UNCHANGED unit_calls
    \/ \E vid \in VIDs : catner_add_variant("A", "F", vid, "x") /\ UNCHANGED unit_calls
    \/ catner_sel_first_variant /\ UNCHANGED unit_calls
    \/ catner_sel_next_variant /\ UNCHANGED unit_calls
    \/ catner_add_article_image("A", "image/jpg", "p") /\ UNCHANGED unit_calls
    \/ catner_sel_first_image /\ UNCHANGED unit_calls
    \/ catner_add_article_unit("A", NULL, NULL, FALSE) /\ UNCHANGED unit_calls
    \/ catner_sel_first_unit /\ UNCHANGED unit_calls

SpecFeatureWalk == Init /\ [][NextFeatureWalk]_vars

\* Walking the images and units of one article, which also has a feature
\* with a variant, and is deleted through the cursor.
NextMediaWalk ==
    \/ catner_add_article("A", NULL, NULL) /\ UNCHANGED unit_calls
    \/ catner_sel_article("A") /\ UNCHANGED unit_calls
    \/ catner_add_feature("A", "F", NULL, NULL, NULL, NULL) /\ UNCHANGED unit_calls
    \/ catner_sel_feature("F") /\ UNCHANGED unit_calls
    \/ catner_sel_first_feature /\ UNCHANGED unit_calls
    \/ catner_sel_next_feature /\ UNCHANGED unit_calls
    \/ catner_add_variant("A", "F", "V", "x") /\ UNCHANGED unit_calls
    \/ catner_sel_first_variant /\ UNCHANGED unit_calls
    \/ catner_sel_next_variant /\ UNCHANGED unit_calls
    \/ \E path \in Paths :
            catner_add_article_image("A", "image/jpg", path) /\ UNCHANGED unit_calls
    \/ catner_sel_first_image /\ UNCHANGED unit_calls
    \/ catner_sel_next_image /\ UNCHANGED unit_calls
    \/ \E code \in Codes :
            catner_add_article_unit("A", code, NULL, FALSE) /\ UNCHANGED unit_calls
    \/ catner_sel_first_unit /\ UNCHANGED unit_calls
    \/ catner_sel_next_unit /\ UNCHANGED unit_calls
    \/ catner_del_article(NULL) /\ UNCHANGED unit_calls

SpecMediaWalk == Init /\ [][NextMediaWalk]_vars

\* Images: the images of one article are added, deleted and selected.
NextImages ==
    \/ catner_add_article("A", NULL, NULL) /\ UNCHANGED unit_calls
    \/ catner_sel_article("A") /\ UNCHANGED unit_calls
    \/ \E aid \in {"A", NULL}, mime \in Mimes, path \in Paths :
            catner_add_article_image(aid, mime, path) /\ UNCHANGED unit_calls
    \/ \E aid \in {"A", NULL}, path \in Paths :
            catner_del_article_image(aid, path) /\ UNCHANGED unit_calls
    \/ catner_sel_first_image /\ UNCHANGED unit_calls

SpecImages == Init /\ [][NextImages]_vars

\* Units: the units of one article are added, each call that reaches the
\* article being appended to the article's entry of unit_calls.
LogUnitCall(aid, code, factor, main) ==
    LET article == ArticleArg(aid) IN
    IF article = 0 THEN UNCHANGED unit_calls
    ELSE /\ Len(unit_calls[article]) < MaxUnitCalls
         /\ unit_calls' = [unit_calls EXCEPT ![article] =
                Append(@, [code |-> code, factor |-> factor, main |-> main])]

NextUnits ==
    \/ /\ catner_add_article("A", NULL, NULL)
       /\ unit_calls' = IF ret' = 0 THEN Append(unit_calls, <<>>) ELSE unit_calls
    \/ \E code \in Codes \cup {NULL}, factor \in Factors \cup {NULL}, main \in BOOLEAN :
            /\ LogUnitCall("A", code, factor, main)
            /\ catner_add_article_unit("A", code, factor, main)

SpecUnits == Init /\ [][NextUnits]_vars

\* Keys and cursors: every operation that takes an article, feature or
\* variant key is called with the key and without it, on one article with
\* one feature and one variant.  The setters write the text the node was
\* created with; an image is added with either mime type, and an article
\* that is never added is selected as well.
NextKeys ==
    \/ catner_add_article("A", "s", "d") /\ UNCHANGED unit_calls
    \/ \E aid \in AIDs : catner_sel_article(aid) /\ UNCHANGED unit_calls
    \/ catner_sel_feature("F") /\ UNCHANGED unit_calls
    \/ catner_sel_first_variant /\ UNCHANGED unit_calls
    \/ \E aid \in {"A", NULL}, mime \in Mimes :
            catner_add_article_image(aid, mime, "p") /\ UNCHANGED unit_calls
    \/ \E aid \in {"A", NULL} :
            catner_add_article_unit(aid, NULL, NULL, FALSE) /\ UNCHANGED unit_calls
    \/ \E aid \in {"A", NULL} :
            catner_add_article_category(aid, "c") /\ UNCHANGED unit_calls
    \/ \E aid \in {"A", NULL} :
            catner_add_feature(aid, "F", "n", "e", NULL, NULL) /\ UNCHANGED unit_calls
    \/ \E aid \in {"A", NULL} :
            catner_set_article_id(aid, "A") /\ UNCHANGED unit_calls
    \/ \E aid \in {"A", NULL} :
            catner_set_article_title(aid, "s") /\ UNCHANGED unit_calls
    \/ \E aid \in {"A", NULL} :
            catner_set_article_descr(aid, "d") /\ UNCHANGED unit_calls
    \/ \E aid \in {"A", NULL} :
            catner_del_article(aid) /\ UNCHANGED unit_calls
    \/ \E aid \in {"A", NULL} :
            catner_del_article_category(aid, "c") /\ UNCHANGED unit_calls
    \/ \E aid \in {"A", NULL} :
            catner_del_article_image(aid, "p") /\ UNCHANGED unit_calls
    \/ \E aid \in {"A", NULL}, fid \in {"F", NULL} :
            catner_add_variant(aid, fid, "V", "x") /\ UNCHANGED unit_calls
    \/ \E aid \in {"A", NULL}, fid \in {"F", NULL} :
            catner_set_feature_id(aid, fid, "F") /\ UNCHANGED unit_calls
    \/ \E aid \in {"A", NULL}, fid \in {"F", NULL} :
            catner_set_feature_name(aid, fid, "n") /\ UNCHANGED unit_calls
    \/ \E aid \in {"A", NULL}, fid \in {"F", NULL} :
            catner_set_feature_descr(aid, fid, "e") /\ UNCHANGED unit_calls
    \/ \E aid \in {"A", NULL}, fid \in {"F", NULL} :
            catner_del_feature(aid, fid) /\ UNCHANGED unit_calls
    \/ \E aid \in {"A", NULL}, fid \in {"F", NULL}, vid \in {"V", NULL} :
            catner_set_variant_value(aid, fid, vid, "x") /\ UNCHANGED unit_calls
    \/ \E aid \in {"A", NULL}, fid \in {"F", NULL}, vid \in {"V", NULL} :
            catner_del_variant(aid, fid, vid) /\ UNCHANGED unit_calls

SpecKeys == Init /\ [][NextKeys]_vars

\* The fields of a new feature: a feature is added to one article, by key
\* and through the cursor, with and without a name, a description and a
\* unit, and deleted again.
FeatureNames == {"n", NULL}

FeatureDescrs == {"e", NULL}

FeatureUnits == {"u", NULL}

NextFeatureFields ==
    \/ catner_add_article("A", NULL, NULL) /\ UNCHANGED unit_calls
    \/ catner_sel_article("A") /\ UNCHANGED unit_calls
    \/ \E aid \in {"A", NULL}, fid \in FIDs, name \in FeatureNames,
          descr \in FeatureDescrs, unit \in FeatureUnits :
            catner_add_feature(aid, fid, name, descr, unit, NULL) /\ UNCHANGED unit_calls
    \/ \E fid \in FIDs : catner_del_feature("A", fid) /\ UNCHANGED unit_calls

SpecFeatureFields == Init /\ [][NextFeatureFields]_vars

\* The keys of the features of one article: features are added, selected,
\* renamed by key and through the cursors, and deleted.
NextFeatureKeys ==
    \/ catner_add_article("A", NULL, NULL) /\ UNCHANGED unit_calls
    \/ catner_sel_article("A") /\ UNCHANGED unit_calls
    \/ \E aid \in {"A", NULL}, fid \in FIDs :
            catner_add_feature(aid, fid, NULL, NULL, NULL, NULL) /\ UNCHANGED unit_calls
    \/ \E fid \in FIDs : catner_sel_feature(fid) /\ UNCHANGED unit_calls
    \/ \E aid \in {"A", NULL}, fid \in FIDs \cup {NULL}, value \in FIDs :
            catner_set_feature_id(aid, fid, value) /\ UNCHANGED unit_calls
    \/ \E aid \in {"A", NULL}, fid \in FIDs \cup {NULL} :
            catner_del_feature(aid, fid) /\ UNCHANGED unit_calls

SpecFeatureKeys == Init /\ [][NextFeatureKeys]_vars

\* What an article and a feature hold: variants, images, categories and
\* units are added to one article with one feature and deleted again, the
\* images and categories also through the article cursor.
CIDs == {"c", "dd"}

NextMembers ==
    \/ catner_add_article("A", NULL, NULL) /\ UNCHANGED unit_calls
    \/ catner_sel_article("A") /\ UNCHANGED unit_calls
    \/ catner_add_feature("A", "F", NULL, NULL, NULL, NULL) /\ UNCHANGED unit_calls
    \/ \E vid \in VIDs : catner_add_variant("A", "F", vid, "x") /\ UNCHANGED unit_calls
    \/ \E vid \in VIDs : catner_del_variant("A", "F", vid) /\ UNCHANGED unit_calls
    \/ \E path \in Paths :
            catner_add_article_image(NULL, "image/jpg", path) /\ UNCHANGED unit_calls
    \/ \E path \in Paths : catner_del_article_image("A", path) /\ UNCHANGED unit_calls
    \/ \E cid \in CIDs : catner_add_article_category(NULL, cid) /\ UNCHANGED unit_calls
    \/ \E cid \in CIDs : catner_del_article_category("A", cid) /\ UNCHANGED unit_calls
    \/ \E code \in Codes :
            catner_add_article_unit("A", code, NULL, FALSE) /\ UNCHANGED unit_calls

SpecMembers == Init /\ [][NextMembers]_vars

\* Deleting with and without a selection: two articles, two features of
\* article A, two variants of its feature F and an image are added by key
\* and selected, and the articles, features and variants are deleted by key
\* and through the cursors.
NextDeletes ==
    \/ \E aid \in AIDs : catner_add_article(aid, NULL, NULL) /\ UNCHANGED unit_calls
    \/ \E aid \in AIDs : catner_sel_article(aid) /\ UNCHANGED unit_calls
    \/ \E fid \in FIDs :
            catner_add_feature("A", fid, NULL, NULL, NULL, NULL) /\ UNCHANGED unit_calls
    \/ \E fid \in FIDs : catner_sel_feature(fid) /\ UNCHANGED unit_calls
    \/ \E vid \in VIDs : catner_add_variant("A", "F", vid, "x") /\ UNCHANGED unit_calls
    \/ catner_sel_first_variant /\ UNCHANGED unit_calls
    \/ catner_sel_next_variant /\ UNCHANGED unit_calls
    \/ catner_add_article_image("A", "image/jpg", "p") /\ UNCHANGED unit_calls
    \/ catner_sel_first_image /\ UNCHANGED unit_calls
    \/ \E aid \in AidKeys : catner_del_article(aid) /\ UNCHANGED unit_calls
    \/ \E fid \in FidKeys : catner_del_feature("A", fid) /\ UNCHANGED unit_calls
    \/ \E vid \in VidKeys : catner_del_variant("A", "F", vid) /\ UNCHANGED unit_calls

SpecDeletes == Init /\ [][NextDeletes]_vars

\* The scope of the keys: two articles, each with a feature F with a
\* variant V and a category; the article is always given by its key, the
\* feature by its key or through the cursor.
NextScopes ==
    \/ \E aid \in AIDs : catner_add_article(aid, NULL, NULL) /\ UNCHANGED unit_calls
    \/ \E aid \in AIDs : catner_sel_article(aid) /\ UNCHANGED unit_calls
    \/ \E aid \in AIDs :
            catner_add_feature(aid, "F", NULL, NULL, NULL, NULL) /\ UNCHANGED unit_calls
    \/ catner_sel_feature("F") /\ UNCHANGED unit_calls
    \/ \E aid \in AIDs, fid \in {"F", NULL} :
            catner_add_variant(aid, fid, "V", "x") /\ UNCHANGED unit_calls
    \/ \E aid \in AIDs, fid \in {"F", NULL} :
            catner_set_feature_name(aid, fid, "n") /\ UNCHANGED unit_calls
    \/ \E aid \in AIDs, fid \in {"F", NULL} :
            catner_del_feature(aid, fid) /\ UNCHANGED unit_calls
    \/ \E aid \in AIDs : catner_add_article_category(aid, "c") /\ UNCHANGED unit_calls
    \/ \E aid \in AIDs : catner_del_article(aid) /\ UNCHANGED unit_calls

SpecScopes == Init /\ [][NextScopes]_vars

\* The catalog settings and the last-error slot of a fresh handle.
Locales == {"EN", "DE", "D", NULL}
Territories == {"DE", "AT", "D", NULL}

NextHeader ==
    \/ \E value \in Locales : catner_set_locale(value) /\ UNCHANGED unit_calls
    \/ \E value \in Territories : catner_add_territory(value) /\ UNCHANGED unit_calls
    \/ catner_last_error /\ UNCHANGED unit_calls
    \/ catner_write_xml(FilePath) /\ UNCHANGED unit_calls
    \/ catner_save /\ UNCHANGED unit_calls

SpecHeader == Init /\ [][NextHeader]_vars

\* Loading: the documents a file can hold are the ones with any of the
\* anchors missing, a root element that is BMECAT, another one or none, and
\* a GENERATOR_INFO or none in HEADER; the file written by the handle is
\* loaded as well.
LoadDocs ==
    {[doc |-> [root |-> r, header |-> h, articles |-> a, catalog |-> c,
               generators |-> g, locales |-> <<>>, territories |-> <<>>],
      arts |-> <<>>] :
        r \in {NULL, BMECAT_NODE_ROOT, "CATALOG"}, h \in BOOLEAN,
        a \in BOOLEAN, c \in BOOLEAN,
        g \in {<<>>} \cup {<<x>> : x \in Generators}}

\* A document without a root element has no other element; CATALOG and
\* GENERATOR_INFO are children of HEADER.
WellFormed(f) ==
    /\ f.doc.root = NULL => ~f.doc.header /\ ~f.doc.articles
    /\ ~f.doc.header => ~f.doc.catalog /\ f.doc.generators = <<>>

NextLoad ==
    \/ catner_init /\ UNCHANGED unit_calls
    \/ \E f \in {d \in LoadDocs : WellFormed(d)}, amend \in BOOLEAN :
            catner_load(f, amend) /\ UNCHANGED unit_calls
    \/ \E amend \in BOOLEAN :
            file # <<>> /\ catner_load(file[1], amend) /\ UNCHANGED unit_calls
    \/ \E value \in Generators : catner_set_generator(value) /\ UNCHANGED unit_calls
    \/ catner_get_generator(MaxCapacity) /\ UNCHANGED unit_calls
    \/ catner_write_xml(FilePath) /\ UNCHANGED unit_calls
    \/ catner_save /\ UNCHANGED unit_calls

SpecLoad == Init /\ [][NextLoad]_vars

\* The generator node alone: added, set, read, and the error read.
NextGenerator ==
    \/ \E value \in Generators : catner_add_generator(value) /\ UNCHANGED unit_calls
    \/ \E value \in Generators : catner_set_generator(value) /\ UNCHANGED unit_calls
    \/ \E len \in 1..MaxCapacity : catner_get_generator(len) /\ UNCHANGED unit_calls
    \/ catner_last_error /\ UNCHANGED unit_calls

SpecGenerator == Init /\ [][NextGenerator]_vars

\* The generator node added, set, deleted and read.
NextGeneratorNode ==
    \/ \E value \in Generators : catner_add_generator(value) /\ UNCHANGED unit_calls
    \/ \E value \in Generators : catner_set_generator(value) /\ UNCHANGED unit_calls
    \/ catner_del_generator /\ UNCHANGED unit_calls
    \/ \E len \in 1..MaxCapacity : catner_get_generator(len) /\ UNCHANGED unit_calls

SpecGeneratorNode == Init /\ [][NextGeneratorNode]_vars

\* The texts of one article, written and read back with the article's key
\* and through the cursor.
NextTexts ==
    \/ \E td \in ArticleTexts :
            catner_add_article("A", td[1], td[2]) /\ UNCHANGED unit_calls
    \/ catner_sel_article("A") /\ UNCHANGED unit_calls
    \/ \E aid \in {"A", NULL}, value \in {"s", "t", NULL} :
            catner_set_article_title(aid, value) /\ UNCHANGED unit_calls
    \/ \E aid \in {"A", NULL}, value \in {"d", "e", NULL} :
            catner_set_article_descr(aid, value) /\ UNCHANGED unit_calls
    \/ \E aid \in {"A", NULL} :
            catner_get_article_title(aid, MaxCapacity) /\ UNCHANGED unit_calls
    \/ \E aid \in {"A", NULL} :
            catner_get_article_descr(aid, MaxCapacity) /\ UNCHANGED unit_calls

SpecTexts == Init /\ [][NextTexts]_vars

\* Lists: the territories and the categories of one article, read into
\* buffers that hold no entry, one entry, or the whole list.
ListLens == {1, 2, 3, 6}

NextLists ==
    \/ \E value \in {"DE", "AT"} : catner_add_territory(value) /\ UNCHANGED unit_calls
    \/ \E len \in ListLens : catner_get_territories(len) /\ UNCHANGED unit_calls
    \/ catner_add_article("A", NULL, NULL) /\ UNCHANGED unit_calls
    \/ \E value \in {"c", "dd"} :
            catner_add_article_category("A", value) /\ UNCHANGED unit_calls
    \/ \E aid \in {"A", NULL}, len \in ListLens :
            catner_get_article_categories(aid, len) /\ UNCHANGED unit_calls

SpecLists == Init /\ [][NextLists]_vars

\* Copying: every content of up to MaxContent bytes (or no node), every
\* buffer length from 1 to MaxCapacity, the buffer zeroed or not.
RECURSIVE Strings(_)
Strings(n) ==
    IF n = 0 THEN {""}
    ELSE Strings(n - 1) \cup {s \o c : s \in Strings(n - 1), c \in {"a", "b"}}

InitCopy ==
    /\ InitHandle
    /\ \E content \in Strings(MaxContent) \cup {NULL}, len \in 1..MaxCapacity,
          fill \in {Garbage, NUL} :
            buf = [node |-> content, mem |-> Memory(len, fill), len |-> len,
                   fill |-> fill]

NextCopy ==
    \/ CopyContent /\ UNCHANGED unit_calls

SpecCopy == InitCopy /\ [][NextCopy]_vars

-----------------------------------------------------------------------------
(* Properties of the article registry, under SpecArticles.                 *)

\* C1: no two Articles of the article-container have the same AID, whatever
\* public operations were applied.
C1_UniqueAIDs ==
    \A i, j \in 1..Len(arts) : i # j => arts[i].aid # arts[j].aid

\* C7: addArticle with a non-empty AID that no Article has succeeds, appends
\* one Article and findArticle(aid) returns that new Article; addArticle
\* with an AID some Article has fails with AlreadyExists and leaves the
\* article count and that Article's title and description as they were.
C7_AddThenFind ==
    (call.op = "add_article" /\ call.a # NULL /\ call.a # "") =>
        IF \A i \in 1..Len(pre.arts) : pre.arts[i].aid # call.a
        THEN /\ ret = 0
             /\ Len(arts) = Len(pre.arts) + 1
             /\ SubSeq(arts, 1, Len(pre.arts)) = pre.arts
             /\ libcatner_get_article(arts, call.a) = Len(arts)
             /\ arts[Len(arts)].aid = call.a
        ELSE /\ ret = -1
             /\ error = LIBCATNER_ERR_ALREADY_EXISTS
             /\ Len(arts) = Len(pre.arts)
             /\ \A i \in 1..Len(pre.arts) :
                    pre.arts[i].aid = call.a =>
                        /\ arts[i].title = pre.arts[i].title
                        /\ arts[i].descr = pre.arts[i].descr

\* A second addArticle("A", t, d) was rejected while the Article "A" holds
\* a title and a description other than t and d.
C7_Witness ==
    /\ call.op = "add_article"
    /\ ret = -1
    /\ error = LIBCATNER_ERR_ALREADY_EXISTS
    /\ \E i \in 1..Len(arts) :
          /\ arts[i].aid = call.a
          /\ arts[i].title \notin {NULL, call.v}
          /\ arts[i].descr \notin {NULL, call.x}
          /\ call.v # NULL

\* C9: addArticle with an empty AID fails, creates no Article and sets the
\* last error to InvalidValue.
C9_EmptyAidInvalidValue ==
    (call.op = "add_article" /\ call.a = "") =>
        /\ ret = -1
        /\ arts = pre.arts
        /\ error = LIBCATNER_ERR_INVALID_VALUE

-----------------------------------------------------------------------------
(* Properties of the feature order, under SpecOrder.                       *)

\* C2: in every article, after any sequence of addFeature and deleteFeature
\* calls (by key or through the cursors), each Feature's order index is its
\* 1-based rank among its siblings, so the order indices are exactly 1..N.
C2_OrderIsRank ==
    \A i \in 1..Len(arts) :
        \A j \in 1..Len(arts[i].feats) :
            arts[i].feats[j].order = ToString(j)

-----------------------------------------------------------------------------
(* Properties of feature values and variants, under SpecVariants.          *)

\* C5: after every public operation no Feature holds both at least one
\* Variant and a scalar value field.
C5_VariantsExcludeValue ==
    \A i \in 1..Len(arts) :
        \A j \in 1..Len(arts[i].feats) :
            Len(arts[i].feats[j].vars) > 0 => arts[i].feats[j].value = NULL

\* C6: an addVariant that reached a Feature succeeds unless the Feature has
\* a Variant with that VID; when it succeeds the Feature has no value field
\* and its Variants are the earlier ones followed by the new one with the
\* given VID and value; when it is rejected the Feature (and the document)
\* is as it was.
C6_AddVariantDropsValue ==
    call.op = "add_variant" =>
        LET pa == IF call.a # NULL
                  THEN First({i \in 1..Len(pre.arts) : pre.arts[i].aid = call.a})
                  ELSE IF pre.cursor[1] = NoNode THEN 0 ELSE pre.cursor[1][1]
            pf == IF pa = 0 THEN <<0, 0>>
                  ELSE IF call.f # NULL
                  THEN <<pa, First({j \in 1..Len(pre.arts[pa].feats) :
                                    pre.arts[pa].feats[j].fid = call.f})>>
                  ELSE IF pre.cursor[2] = NoNode THEN <<0, 0>> ELSE pre.cursor[2]
        IN  pf[2] # 0 =>
                LET old == pre.arts[pf[1]].feats[pf[2]]
                    new == arts[pf[1]].feats[pf[2]]
                IN  IF \E k \in 1..Len(old.vars) : old.vars[k].vid = call.v
                    THEN /\ ret = -1
                         /\ error = LIBCATNER_ERR_ALREADY_EXISTS
                         /\ arts = pre.arts
                    ELSE /\ ret = 0
                         /\ new.value = NULL
                         /\ new.vars = Append(old.vars,
                                            [vid |-> call.v, value |-> call.x])

\* An addVariant through the cursors succeeded on a Feature that held a
\* value field.
C6_Witness ==
    /\ call.op = "add_variant"
    /\ call.a = NULL
    /\ call.f = NULL
    /\ ret = 0
    /\ pre.cursor[2] # NoNode
    /\ pre.arts[pre.cursor[2][1]].feats[pre.cursor[2][2]].value # NULL
    /\ arts[pre.cursor[2][1]].feats[pre.cursor[2][2]].value = NULL

-----------------------------------------------------------------------------
(* Properties of the cursors, under SpecCursor.                            *)

\* C3: deleteArticle applied to the selected Article, named by key or taken
\* from the cursor, leaves all five cursor slots none.
C3_DeleteSelectedClearsAll ==
    (/\ call.op = "del_article"
     /\ ret = 0
     /\ pre.cursor[1] # NoNode
     /\ \/ call.a = NULL
        \/ First({i \in 1..Len(pre.arts) : pre.arts[i].aid = call.a})
               = pre.cursor[1][1])
    => /\ curr_article = NoNode
       /\ curr_feature = NoNode
       /\ curr_variant = NoNode
       /\ curr_image = NoNode
       /\ curr_unit = NoNode

-----------------------------------------------------------------------------
(* Properties of the images, under SpecImages.                             *)

\* C4: deleteImage(aid, path) on an article that holds an Image with that
\* path succeeds and removes it, so that the article has no Image with that
\* path (and addImage with that path is not a duplicate any more), and the
\* Image slot is none if it referenced the Image; on an article without
\* such an Image the call fails with NoSuchNode and changes nothing.
C4_DeleteImageRemoves ==
    call.op = "del_article_image" =>
        LET pa == IF call.a # NULL
                  THEN First({i \in 1..Len(pre.arts) : pre.arts[i].aid = call.a})
                  ELSE IF pre.cursor[1] = NoNode THEN 0 ELSE pre.cursor[1][1]
        IN  pa # 0 =>
                LET old == pre.arts[pa].images
                    held == {j \in 1..Len(old) : old[j].path = call.v}
                IN  IF held # {}
                    THEN /\ ret = 0
                         /\ \A j \in 1..Len(arts[pa].images) :
                                arts[pa].images[j].path # call.v
                         /\ (\E j \in held : pre.cursor[4] = <<pa, j>>)
                                => curr_image = NoNode
                    ELSE /\ ret = -1
                         /\ error = LIBCATNER_ERR_NO_SUCH_NODE
                         /\ arts = pre.arts

-----------------------------------------------------------------------------
(* Properties of the units, under SpecUnits.                               *)

\* C10: after any sequence of addUnit calls on an article, the article has
\* exactly one Alternative-unit per distinct code supplied (an omitted code
\* being "PCE"), each with the factor of the most recent call for its code
\* (an omitted factor being "1"), and the main unit is the code of the most
\* recent call with isMain, or of the first call if there was none.  After
\* addUnit(PCE, null, true), addUnit(PCE, "1", true), addUnit(MTR, "6", true)
\* the alternative units are PCE/"1" and MTR/"6" and the main unit is MTR.
C10_UnitsFollowCalls ==
    \A i \in 1..Len(arts) :
        LET L == unit_calls[i]
            a == arts[i]
            Code(k) == IF L[k].code = NULL THEN "PCE" ELSE L[k].code
            Factor(k) == IF L[k].factor = NULL THEN "1" ELSE L[k].factor
            Last(S) == CHOOSE k \in S : \A m \in S : m <= k
            mains == {k \in 1..Len(L) : L[k].main}
        IN  /\ {a.alts[j].code : j \in 1..Len(a.alts)} = {Code(k) : k \in 1..Len(L)}
            /\ \A j, m \in 1..Len(a.alts) : a.alts[j].code = a.alts[m].code => j = m
            /\ \A j \in 1..Len(a.alts) :
                  a.alts[j].factor =
                      Factor(Last({k \in 1..Len(L) : Code(k) = a.alts[j].code}))
            /\ Len(L) > 0 =>
                  a.main = IF mains # {} THEN Code(Last(mains)) ELSE Code(1)
            /\ Len(L) = 0 => a.main = NULL
            /\ L = <<[code |-> "PCE", factor |-> NULL, main |-> TRUE],
                     [code |-> "PCE", factor |-> "1", main |-> TRUE],
                     [code |-> "MTR", factor |-> "6", main |-> TRUE]>>
                  => /\ a.alts = <<[code |-> "PCE", factor |-> "1"],
                                   [code |-> "MTR", factor |-> "6"]>>
                     /\ a.main = "MTR"

\* The three calls of the example have been made on an article.
C10_Witness ==
    /\ Len(arts) = 1
    /\ unit_calls[1] = <<[code |-> "PCE", factor |-> NULL, main |-> TRUE],
                         [code |-> "PCE", factor |-> "1", main |-> TRUE],
                         [code |-> "MTR", factor |-> "6", main |-> TRUE]>>
    /\ Len(arts[1].alts) = 2
    /\ arts[1].main = "MTR"

-----------------------------------------------------------------------------
(* Properties of keys and cursors, under SpecKeys.                         *)

\* C8: an operation that takes an optional article, feature or variant key,
\* called without the key while the corresponding cursor slot is none,
\* fails, changes nothing and leaves the last error NoSelectionArticle,
\* NoSelectionFeature or NoSelectionVariant; called without the key while
\* the slot is set, it does not fail for want of the article, feature or
\* variant.
C8_NoSelectionError ==
    LET byArticle == {"add_article_image", "add_article_unit", "add_article_category",
                      "add_feature", "add_variant", "set_article_id",
                      "set_article_title", "set_article_descr", "set_feature_id",
                      "set_feature_name", "set_feature_descr", "set_feature_value",
                      "set_variant_value", "del_article", "del_article_category",
                      "del_article_image", "del_feature", "del_variant"}
        byFeature == {"add_variant", "set_feature_id", "set_feature_name",
                      "set_feature_descr", "set_feature_value",
                      "set_variant_value", "del_feature", "del_variant"}
        byVariant == {"set_variant_value", "del_variant"}
        pa == IF call.a # NULL
              THEN First({i \in 1..Len(pre.arts) : pre.arts[i].aid = call.a})
              ELSE IF pre.cursor[1] = NoNode THEN 0 ELSE pre.cursor[1][1]
        pf == IF pa = 0 THEN 0
              ELSE IF call.f # NULL
              THEN First({j \in 1..Len(pre.arts[pa].feats) :
                            pre.arts[pa].feats[j].fid = call.f})
              ELSE IF pre.cursor[2] = NoNode THEN 0 ELSE pre.cursor[2][2]
        unchanged == arts = pre.arts /\ cursor = pre.cursor
    IN  /\ (call.op \in byArticle /\ call.a = NULL) =>
              IF pre.cursor[1] = NoNode
              THEN ret = -1 /\ unchanged /\ error = LIBCATNER_ERR_NO_SEL_ARTICLE
              ELSE ret = -1 => error # LIBCATNER_ERR_NO_SUCH_AID
        /\ (call.op \in byFeature /\ pa # 0 /\ call.f = NULL) =>
              IF pre.cursor[2] = NoNode
              THEN ret = -1 /\ unchanged /\ error = LIBCATNER_ERR_NO_SEL_FEATURE
              ELSE ret = -1 => error # LIBCATNER_ERR_NO_SUCH_FID
        /\ (call.op \in byVariant /\ pf # 0 /\ call.v = NULL) =>
              IF pre.cursor[3] = NoNode
              THEN ret = -1 /\ unchanged /\ error = LIBCATNER_ERR_NO_SEL_VARIANT
              ELSE ret = -1 => error # LIBCATNER_ERR_NO_SUCH_VID

-----------------------------------------------------------------------------
(* More properties of the units, under SpecUnits.                          *)

\* C11: addUnit with a code the article already has and isMain false
\* succeeds, sets the factor of the Alternative-unit with that code (an
\* omitted factor being "1"), and leaves the main unit, the number and codes
\* of the Alternative-units and every other unit's factor as they were.
C11_UpsertOverwritesFactorOnly ==
    call.op = "add_article_unit" =>
        LET pa == First({i \in 1..Len(pre.arts) : pre.arts[i].aid = call.a})
        IN  pa # 0 =>
                LET last == unit_calls[pa][Len(unit_calls[pa])]
                    code == IF last.code = NULL THEN "PCE" ELSE last.code
                    factor == IF last.factor = NULL THEN "1" ELSE last.factor
                    old == pre.arts[pa]
                    new == arts[pa]
                IN  (/\ ~last.main
                     /\ \E j \in 1..Len(old.alts) : old.alts[j].code = code)
                    => /\ ret = 0
                       /\ new.main = old.main
                       /\ Len(new.alts) = Len(old.alts)
                       /\ \A j \in 1..Len(old.alts) :
                             /\ new.alts[j].code = old.alts[j].code
                             /\ new.alts[j].factor =
                                   IF old.alts[j].code = code THEN factor
                                   ELSE old.alts[j].factor

\* An addUnit without isMain gave a new factor to the second of two
\* Alternative-units, which is not the main unit.
C11_Witness ==
    /\ call.op = "add_article_unit"
    /\ ret = 0
    /\ Len(arts) = 1
    /\ Len(pre.arts) = 1
    /\ Len(pre.arts[1].alts) = 2
    /\ Len(arts[1].alts) = 2
    /\ ~unit_calls[1][Len(unit_calls[1])].main
    /\ arts[1].alts[2].factor # pre.arts[1].alts[2].factor
    /\ arts[1].alts[1].factor # arts[1].alts[2].factor
    /\ arts[1].main = arts[1].alts[1].code

-----------------------------------------------------------------------------
(* Properties of the catalog settings, under SpecHeader.                   *)

\* C12: catner_set_locale with a value whose length is not two fails with
\* LIBCATNER_ERR_INVALID_VALUE and leaves the LOCALE as it was; with a value
\* of two characters it succeeds and leaves exactly one LOCALE under
\* CATALOG, holding that value.  So after any sequence of calls there is at
\* most one LOCALE, and it holds the value of the last successful call.
C12_SetLocaleOverwrites ==
    /\ Len(doc.locales) <= 1
    /\ call.op = "set_locale" =>
         IF xmlStrlen(call.x) # 2
         THEN /\ ret = -1
              /\ error = LIBCATNER_ERR_INVALID_VALUE
              /\ doc = pre.doc
         ELSE /\ ret = 0
              /\ doc.locales = <<call.x>>
              /\ doc = [pre.doc EXCEPT !.locales = <<call.x>>]

\* "EN" was overwritten by "DE".
C12_Witness ==
    /\ call.op = "set_locale"
    /\ ret = 0
    /\ pre.doc.locales = <<"EN">>
    /\ doc.locales = <<"DE">>

\* C13: catner_add_territory with a value of two characters succeeds and
\* makes the TERRITORY values the ones there were together with the new one,
\* a repeated value adding no node; a value whose length is not two fails
\* with LIBCATNER_ERR_INVALID_VALUE and changes nothing.  No two TERRITORY
\* nodes hold the same value, so catner_num_territories is the number of
\* distinct values supplied.
C13_TerritoriesAreASet ==
    LET Values(t) == {t[i] : i \in 1..Len(t)} IN
    /\ catner_num_territories = Cardinality(Values(doc.territories))
    /\ call.op = "add_territory" =>
         IF xmlStrlen(call.x) # 2
         THEN /\ ret = -1
              /\ error = LIBCATNER_ERR_INVALID_VALUE
              /\ doc = pre.doc
         ELSE /\ ret = 0
              /\ Values(doc.territories) = Values(pre.doc.territories) \cup {call.x}
              /\ call.x \in Values(pre.doc.territories) => doc = pre.doc

\* "DE", "AT", "DE": the third call succeeded and the count is 2.
C13_Witness ==
    /\ call.op = "add_territory"
    /\ call.x = "DE"
    /\ ret = 0
    /\ pre.doc.territories = <<"DE", "AT">>
    /\ catner_num_territories = 2

-----------------------------------------------------------------------------
(* Failing calls.                                                          *)

\* The operations that select the first child of a kind: they clear their
\* cursor when there is no such child, and are not add, set or delete
\* operations.
SelFirstOps == {"sel_first_variant", "sel_first_image", "sel_first_unit"}

\* The operations that walk a cursor: they move their cursor to NULL when
\* there is no first or next node.
SelWalkOps == {"sel_first_article", "sel_next_article", "sel_first_feature",
               "sel_next_feature", "sel_next_variant", "sel_next_image",
               "sel_next_unit"}

\* C15: every operation that returns -1 leaves an error kind other than
\* LIBCATNER_ERR_NONE in the last-error slot.
C15_FailureSetsError ==
    (ret = -1 /\ call.op # "last_error") => error # LIBCATNER_ERR_NONE

C17_LoadBindsAnchors ==
    LET d == pre.doc
        hasRoot == d.root = BMECAT_NODE_ROOT
        hasHeader == hasRoot /\ d.header
        hasArticles == hasRoot /\ d.articles
        hasCatalog == hasHeader /\ d.catalog
    IN  call.op = "load" =>
          IF call.x = "0"
          THEN /\ cs.valid = (hasRoot /\ hasHeader /\ hasArticles /\ hasCatalog)
               /\ cs.root = hasRoot
               /\ cs.header = (cs.root /\ hasHeader)
               /\ cs.articles = (cs.header /\ hasArticles)
               /\ cs.catalog = (cs.articles /\ hasCatalog)
               /\ doc = d
          ELSE /\ cs.valid
               /\ cs.root /\ cs.header /\ cs.articles /\ cs.catalog
               /\ doc.root = BMECAT_NODE_ROOT
               /\ doc.header /\ doc.articles /\ doc.catalog

\* C18: after catner_load of a document whose HEADER holds a GENERATOR_INFO,
\* the handle is bound to that node: catner_get_generator yields its text,
\* and catner_set_generator overwrites it, HEADER still holding exactly one
\* GENERATOR_INFO.
C18_LoadBindsGenerator ==
    /\ (call.op = "load" /\ cs.valid /\ doc.generators # <<>>) =>
            cs.generator = 1
    /\ (call.op = "get_generator" /\ doc.generators # <<>>) =>
            /\ CString(buf.mem) = Bytes(doc.generators[1])
            /\ ret = Len(doc.generators[1]) + 1
    /\ (call.op = "set_generator" /\ pre.doc.generators # <<>>) =>
            doc.generators = <<Content(call.x)>>

\* C19: catner_get_article_title copies the title the article holds into
\* the buffer and returns its length plus one, and catner_get_article_descr
\* does the same with the description.
C19_TextRoundTrip ==
    LET article == ArticleArg(call.a)
        Got(v) == /\ CString(buf.mem) = Bytes(v)
                  /\ ret = Len(v) + 1
    IN  /\ (call.op = "get_article_title" /\ article # 0
                /\ arts[article].title # NULL) => Got(arts[article].title)
        /\ (call.op = "get_article_descr" /\ article # 0
                /\ arts[article].descr # NULL) => Got(arts[article].descr)

\* C14: every add, set or delete operation, and catner_sel_article and
\* catner_sel_feature, that returns -1 leaves the document and the five
\* cursors as they were before the call.
C14_FailureChangesNothing ==
    (ret = -1 /\ call.op \notin SelFirstOps \cup SelWalkOps \cup {"init", "last_error"}) =>
        /\ arts = pre.arts
        /\ cursor = pre.cursor
        /\ doc = pre.doc

\* An image was rejected as already there, with a mime type that is not the
\* one the image has, while its article was selected.
C14_Witness ==
    /\ call.op = "add_article_image"
    /\ ret = -1
    /\ error = LIBCATNER_ERR_ALREADY_EXISTS
    /\ curr_article = <<1>>
    /\ \E i \in 1..Len(arts[1].images) :
            /\ arts[1].images[i].path = call.v
            /\ arts[1].images[i].mime # call.x

-----------------------------------------------------------------------------
(* Properties of libcatner_cpy_content, under SpecCopy.                    *)

\* C20: for every content s and every buffer length len >= 1, after
\* libcatner_cpy_content the buffer holds the first min(Len(s), len - 1)
\* bytes of s and then a null byte, no byte after the buffer has changed,
\* and the value returned is Len(s) + 1, which exceeds len exactly when the
\* content was cut; for a NULL node the buffer holds the empty string and
\* the value returned is 0.
C20_CopyTruncates ==
    call.op = "cpy_content" =>
      /\ \A i \in (buf.len + 1)..Len(buf.mem) : buf.mem[i] = buf.fill
      /\ IF buf.node = NULL
         THEN CString(buf.mem) = <<>> /\ ret = 0
         ELSE LET s == Bytes(buf.node)
                  n == IF Len(s) < buf.len - 1 THEN Len(s) ELSE buf.len - 1
              IN  /\ SubSeq(buf.mem, 1, n) = SubSeq(s, 1, n)
                  /\ buf.mem[n + 1] = NUL
                  /\ CString(buf.mem) = SubSeq(s, 1, n)
                  /\ ret = Len(s) + 1
                  /\ (n < Len(s)) <=> (ret > buf.len)

\* A content of three bytes was cut to the two that fit a buffer of three.
C20_Witness ==
    /\ call.op = "cpy_content"
    /\ buf.node = "aba"
    /\ buf.len = 3
    /\ buf.fill = Garbage
    /\ CString(buf.mem) = <<"a", "b">>
    /\ ret = 4

-----------------------------------------------------------------------------
(* Properties of the list getters, under SpecLists.                        *)

\* C21: catner_get_territories and catner_get_article_categories return
\* the number of bytes a full copy of the comma-joined list needs: the
\* lengths of the entries, a comma between consecutive entries, and the
\* terminator, whatever the length of the buffer.
C21_ListLengthRequired ==
    LET RECURSIVE Sum(_)
        Sum(l) == IF l = <<>> THEN 0 ELSE Len(Head(l)) + Sum(Tail(l))
        Required(l) == Sum(l) + (IF Len(l) > 1 THEN Len(l) - 1 ELSE 0) + 1
        article == ArticleArg(call.a)
    IN  /\ call.op = "get_territories" => ret = Required(doc.territories)
        /\ (call.op = "get_article_categories" /\ article # 0) =>
                ret = Required(arts[article].cats)

-----------------------------------------------------------------------------
(* Properties of walking the articles, under SpecArticleWalk.              *)

\* C22: when catner_sel_article, catner_sel_first_article or
\* catner_sel_next_article changes the Article cursor, to another article or
\* to NULL, the Feature, Variant, Image and Unit cursors are NULL afterwards;
\* when catner_sel_article or catner_sel_first_article leaves the Article
\* cursor where it was, all five cursors are as before.
C22_ArticleChangeResets ==
    /\ (call.op \in {"sel_article", "sel_first_article", "sel_next_article"}
            /\ curr_article # pre.cursor[1]) =>
          /\ curr_feature = NoNode
          /\ curr_variant = NoNode
          /\ curr_image = NoNode
          /\ curr_unit = NoNode
    /\ (call.op \in {"sel_article", "sel_first_article"}
            /\ curr_article = pre.cursor[1]) =>
          cursor = pre.cursor

\* The walk went from the first article, with a feature, a variant, an
\* image and a unit selected, to the second.
C22_Witness ==
    /\ call.op = "sel_next_article"
    /\ pre.cursor = <<<<1>>, <<1, 1>>, <<1, 1, 1>>, <<1, 1>>, <<1, 1>>>>
    /\ cursor = <<<<2>>, NoNode, NoNode, NoNode, NoNode>>

(* C23 as stated: selectFeature, selectFirstFeature and selectNextFeature,  *)
(* called while no article is selected, each fail with                     *)
(* LIBCATNER_ERR_NO_SEL_ARTICLE and change no cursor.                      *)
C23_AsStated ==
    (call.op \in {"sel_feature", "sel_first_feature", "sel_next_feature"}
        /\ pre.cursor[1] = NoNode) =>
            /\ ret = -1
            /\ error = LIBCATNER_ERR_NO_SEL_ARTICLE
            /\ cursor = pre.cursor

(* C23: selectFeature and selectFirstFeature, called while no article is   *)
(* selected, each fail with LIBCATNER_ERR_NO_SEL_ARTICLE and change no     *)
(* cursor; selectNextFeature called while no article is selected fails     *)
(* with LIBCATNER_ERR_NO_SEL_FEATURE and changes no cursor.                *)
C23_FeatureSelectionNeedsArticle ==
    /\ (call.op \in {"sel_feature", "sel_first_feature"}
            /\ pre.cursor[1] = NoNode) =>
                /\ ret = -1
                /\ error = LIBCATNER_ERR_NO_SEL_ARTICLE
                /\ cursor = pre.cursor
    /\ (call.op = "sel_next_feature" /\ pre.cursor[1] = NoNode) =>
                /\ ret = -1
                /\ error = LIBCATNER_ERR_NO_SEL_FEATURE
                /\ cursor = pre.cursor

C23_Witness ==
    /\ call.op = "sel_first_feature"
    /\ pre.cursor[1] = NoNode
    /\ Len(arts) = 2
    /\ arts[1].hasFeatures
    /\ error = LIBCATNER_ERR_NO_SEL_ARTICLE

(***************************************************************************)
(* Properties of walking the features, under SpecFeatureWalk.              *)
(***************************************************************************)

(* C24: whenever selectFeature, selectFirstFeature or selectNextFeature    *)
(* changes the feature cursor, to another feature or to none, the variant  *)
(* cursor is none afterwards and the article, image and unit cursors are   *)
(* unchanged; selecting the feature already selected leaves the variant    *)
(* cursor unchanged.                                                       *)
C24_FeatureChangeResetsVariant ==
    LET ops == {"sel_feature", "sel_first_feature", "sel_next_feature"} IN
    /\ (call.op \in ops /\ curr_feature # pre.cursor[2]) =>
          /\ curr_variant = NoNode
          /\ curr_article = pre.cursor[1]
          /\ curr_image = pre.cursor[4]
          /\ curr_unit = pre.cursor[5]
    /\ (call.op \in ops /\ ret = 0 /\ curr_feature = pre.cursor[2]) =>
          curr_variant = pre.cursor[3]

C24_Witness ==
    /\ call.op = "sel_feature"
    /\ pre.cursor[2] = <<1, 1>>
    /\ pre.cursor[3] # NoNode
    /\ curr_feature = <<1, 2>>
    /\ curr_variant = NoNode
    /\ curr_image # NoNode
    /\ curr_unit # NoNode

(***************************************************************************)
(* Properties of walking the images and units, under SpecMediaWalk.        *)
(***************************************************************************)

(* C25: the image and unit selections are independent of the feature and   *)
(* variant chain.  selectFirstImage, selectNextImage, selectFirstUnit and  *)
(* selectNextUnit fail when no article is selected and never modify the    *)
(* article, feature or variant cursor; the image operations never modify   *)
(* the unit cursor nor the unit operations the image cursor; the feature   *)
(* and variant selections never modify the image or unit cursor; and       *)
(* selectFirstVariant and selectNextVariant fail when no feature is        *)
(* selected.                                                               *)
C25_MediaIndependent ==
    LET imageOps == {"sel_first_image", "sel_next_image"}
        unitOps == {"sel_first_unit", "sel_next_unit"}
        variantOps == {"sel_first_variant", "sel_next_variant"}
        featureOps == {"sel_feature", "sel_first_feature", "sel_next_feature"}
    IN
    /\ (call.op \in imageOps \cup unitOps /\ pre.cursor[1] = NoNode) => ret = -1
    /\ call.op \in imageOps \cup unitOps =>
          /\ curr_article = pre.cursor[1]
          /\ curr_feature = pre.cursor[2]
          /\ curr_variant = pre.cursor[3]
    /\ call.op \in imageOps => curr_unit = pre.cursor[5]
    /\ call.op \in unitOps => curr_image = pre.cursor[4]
    /\ call.op \in featureOps \cup variantOps =>
          /\ curr_image = pre.cursor[4]
          /\ curr_unit = pre.cursor[5]
    /\ (call.op \in variantOps /\ pre.cursor[2] = NoNode) => ret = -1

(***************************************************************************)
(* Properties of deleting the selected article, under SpecArticleWalk.     *)
(***************************************************************************)

C27_OneGenerator ==
    /\ Len(doc.generators) <= 1
    /\ (call.op = "add_generator" /\ Len(pre.doc.generators) > 0) =>
          /\ ret = -1
          /\ error = LIBCATNER_ERR_ALREADY_EXISTS
          /\ doc = pre.doc
    /\ (call.op = "add_generator" /\ Len(pre.doc.generators) = 0) =>
          /\ ret = 0
          /\ doc.generators = <<Content(call.x)>>

(***************************************************************************)
(* Properties of selectNextArticle and of the features' fields and keys.   *)
(***************************************************************************)

(* C28: selectNextArticle called while no article is selected does         *)
(* nothing, changing no cursor and not the error slot, and returns 0.      *)
(* (A step that changes call to this operation is a call of it.)           *)
C28_NextArticleNoSelection ==
    [][(curr_article = NoNode /\ call'.op = "sel_next_article") =>
            /\ ret' = 0
            /\ cursor' = cursor
            /\ error' = error]_vars

(* C29, under SpecFeatureFields: a feature that addFeature creates has its *)
(* id and an order; when the description argument is omitted its           *)
(* description is the supplied name, and when the unit argument is omitted *)
(* its unit is LIBCATNER_DEF_FEATURE_UNIT ("00").  (A step is checked      *)
(* against the call of catner_add_feature that makes it.)                  *)
C29_FeatureDefaults ==
    [][\A aid \in {"A", NULL}, fid \in FIDs, name \in FeatureNames,
          descr \in FeatureDescrs, unit \in FeatureUnits :
          (catner_add_feature(aid, fid, name, descr, unit, NULL) /\ ret' = 0) =>
              LET article == ArticleArg(aid)
                  feature == arts'[article].feats[Len(arts'[article].feats)]
              IN  /\ feature.fid = fid
                  /\ feature.order # NULL
                  /\ (descr = NULL /\ name # NULL) => feature.descr = name
                  /\ unit = NULL => feature.unit = LIBCATNER_DEF_FEATURE_UNIT
      ]_vars

(* C30, under SpecFeatureKeys: after any sequence of operations on a fresh *)
(* handle no two features of the same article have the same FID.           *)
C30_UniqueFIDs ==
    \A a \in 1..Len(arts) : \A i, j \in 1..Len(arts[a].feats) :
        i # j => arts[a].feats[i].fid # arts[a].feats[j].fid

(***************************************************************************)
(* Properties of what articles and features hold, under SpecMembers.       *)
(***************************************************************************)

(* C31: after any sequence of addVariant, addImage, addCategory, addUnit   *)
(* and the matching deletes, the VIDs are unique within each feature, the  *)
(* image paths, the category ids and the alternative units' codes within   *)
(* each article; and an addVariant, addImage or addCategory of a key that  *)
(* its feature or article already holds is rejected with                   *)
(* LIBCATNER_ERR_ALREADY_EXISTS and changes nothing.                       *)
C31_UniqueMembers ==
    LET Unique(s) == \A i, j \in 1..Len(s) : i # j => s[i] # s[j]
        Named(i) == \/ call.a # NULL /\ pre.arts[i].aid = call.a
                    \/ call.a = NULL /\ pre.cursor[1] = <<i>>
        Rejected == /\ ret = -1
                    /\ error = LIBCATNER_ERR_ALREADY_EXISTS
                    /\ arts = pre.arts
    IN
    /\ \A a \in 1..Len(arts) :
          /\ Unique([i \in 1..Len(arts[a].images) |-> arts[a].images[i].path])
          /\ Unique(arts[a].cats)
          /\ Unique([i \in 1..Len(arts[a].alts) |-> arts[a].alts[i].code])
          /\ \A f \in 1..Len(arts[a].feats) :
                Unique([i \in 1..Len(arts[a].feats[f].vars) |->
                            arts[a].feats[f].vars[i].vid])
    /\ (/\ call.op = "add_article_image"
        /\ \E i \in 1..Len(pre.arts) : /\ Named(i)
              /\ \E k \in 1..Len(pre.arts[i].images) :
                    pre.arts[i].images[k].path = call.v) => Rejected
    /\ (/\ call.op = "add_article_category"
        /\ \E i \in 1..Len(pre.arts) : /\ Named(i)
              /\ \E k \in 1..Len(pre.arts[i].cats) :
                    pre.arts[i].cats[k] = call.v) => Rejected
    /\ (/\ call.op = "add_variant"
        /\ \E i \in 1..Len(pre.arts) : /\ Named(i)
              /\ \E j \in 1..Len(pre.arts[i].feats) :
                    /\ \/ call.f # NULL /\ pre.arts[i].feats[j].fid = call.f
                       \/ call.f = NULL /\ pre.cursor[2] = <<i, j>>
                    /\ \E k \in 1..Len(pre.arts[i].feats[j].vars) :
                          pre.arts[i].feats[j].vars[k].vid = call.v) => Rejected

C31_Witness ==
    /\ call.op = "add_article_category"
    /\ call.a = NULL
    /\ call.v = "dd"
    /\ Len(arts) = 1
    /\ arts[1].cats = <<"c", "dd">>
    /\ ret = -1
    /\ Len(arts[1].images) = 2
    /\ Len(arts[1].alts) = 2
    /\ Len(arts[1].feats) = 1
    /\ Len(arts[1].feats[1].vars) = 2

(***************************************************************************)
(* Properties of deleting features, under SpecOrder.                       *)
(***************************************************************************)

(* C32: a successful deleteFeature removes exactly one feature, from the   *)
(* article that the call names (by its key, or the selected one), keeps    *)
(* that article's other features in their order with every field but the  *)
(* order unchanged, numbers them 1..N, and changes no other article; also  *)
(* when the article is given by key and the feature comes from the cursor. *)
C32_DeleteFeatureExact ==
    (call.op = "del_feature" /\ ret = 0) =>
        \E i \in 1..Len(pre.arts) :
            /\ \/ call.a # NULL /\ pre.arts[i].aid = call.a
               \/ call.a = NULL /\ pre.cursor[1] = <<i>>
            /\ Len(arts) = Len(pre.arts)
            /\ \A a \in 1..Len(arts) : a # i => arts[a] = pre.arts[a]
            /\ arts[i] = [pre.arts[i] EXCEPT !.feats = arts[i].feats]
            /\ \E j \in 1..Len(pre.arts[i].feats) :
                  LET rest == RemoveAt(pre.arts[i].feats, j) IN
                  /\ Len(arts[i].feats) = Len(rest)
                  /\ \A k \in 1..Len(rest) :
                        arts[i].feats[k] = [rest[k] EXCEPT !.order = ToString(k)]

(***************************************************************************)
(* Properties of the cursors under deletion, under SpecCursor.             *)
(***************************************************************************)

(* C33: in every reachable state each cursor that is not none references   *)
(* a node that is still in the document, and the cursors are nested: a     *)
(* feature, image or unit cursor references a node of the selected         *)
(* article, and a variant cursor a variant of the selected feature.        *)
C33_CursorsValid ==
    /\ curr_article # NoNode =>
          /\ Len(curr_article) = 1
          /\ curr_article[1] \in 1..Len(arts)
    /\ curr_feature # NoNode =>
          /\ Len(curr_feature) = 2
          /\ curr_article = <<curr_feature[1]>>
          /\ curr_feature[1] \in 1..Len(arts)
          /\ curr_feature[2] \in 1..Len(arts[curr_feature[1]].feats)
    /\ curr_variant # NoNode =>
          /\ Len(curr_variant) = 3
          /\ curr_feature = <<curr_variant[1], curr_variant[2]>>
          /\ curr_variant[1] \in 1..Len(arts)
          /\ curr_variant[2] \in 1..Len(arts[curr_variant[1]].feats)
          /\ curr_variant[3] \in
                1..Len(arts[curr_variant[1]].feats[curr_variant[2]].vars)
    /\ curr_image # NoNode =>
          /\ Len(curr_image) = 2
          /\ curr_article = <<curr_image[1]>>
          /\ curr_image[1] \in 1..Len(arts)
          /\ curr_image[2] \in 1..Len(arts[curr_image[1]].images)
    /\ curr_unit # NoNode =>
          /\ Len(curr_unit) = 2
          /\ curr_article = <<curr_unit[1]>>
          /\ curr_unit[1] \in 1..Len(arts)
          /\ curr_unit[2] \in 1..Len(arts[curr_unit[1]].alts)

(***************************************************************************)
(* Properties of a sequential traversal, under SpecArticleWalk.            *)
(***************************************************************************)

C35_DeleteClearsExactly ==
    LET ia == IF call.a # NULL
              THEN First({i \in 1..Len(pre.arts) : pre.arts[i].aid = call.a})
              ELSE pre.cursor[1][1]
        floc == IF call.f # NULL
                THEN <<ia, First({j \in 1..Len(pre.arts[ia].feats) :
                                     pre.arts[ia].feats[j].fid = call.f})>>
                ELSE pre.cursor[2]
        variants == pre.arts[floc[1]].feats[floc[2]].vars
        vloc == IF call.v # NULL
                THEN floc \o <<First({k \in 1..Len(variants) :
                                         variants[k].vid = call.v})>>
                ELSE pre.cursor[3]
        Under(p, d) == Len(p) >= Len(d) /\ SubSeq(p, 1, Len(d)) = d
        Stays(c, d) == cursor[c] = Moved(pre.cursor[c], d)
        Same(c) == cursor[c] = pre.cursor[c]
    IN
    /\ (call.op = "del_article" /\ ret = 0
            /\ \A c \in 1..5 : ~Under(pre.cursor[c], <<ia>>)) =>
          \A c \in 1..5 : Stays(c, <<ia>>)
    /\ (call.op = "del_feature" /\ ret = 0) =>
          /\ Same(1) /\ Same(4) /\ Same(5)
          /\ IF pre.cursor[2] = floc
             THEN cursor[2] = NoNode /\ cursor[3] = NoNode
             ELSE ~Under(pre.cursor[3], floc) =>
                      Stays(2, floc) /\ Stays(3, floc)
    /\ (call.op = "del_variant" /\ ret = 0) =>
          /\ Same(1) /\ Same(2) /\ Same(4) /\ Same(5)
          /\ IF pre.cursor[3] = vloc
             THEN cursor[3] = NoNode
             ELSE Stays(3, vloc)

C35_Witness ==
    /\ call.op = "del_feature"
    /\ call.f = NULL
    /\ pre.cursor = <<<<1>>, <<1, 2>>, <<1, 2, 1>>, <<1, 1>>, NoNode>>
    /\ ret = 0
    /\ cursor = <<<<1>>, NoNode, NoNode, <<1, 1>>, NoNode>>

(***************************************************************************)
(* Properties of the units of an article, under SpecUnits.                 *)
(***************************************************************************)

C37_KeysScoped ==
    LET named == {i \in 1..Len(pre.arts) : pre.arts[i].aid = call.a}
        HasFeature(i) == \E j \in 1..Len(pre.arts[i].feats) :
                            pre.arts[i].feats[j].fid = call.f
        HasVariant(i) == \E j \in 1..Len(pre.arts[i].feats) :
                            /\ pre.arts[i].feats[j].fid = call.f
                            /\ \E k \in 1..Len(pre.arts[i].feats[j].vars) :
                                  pre.arts[i].feats[j].vars[k].vid = call.v
    IN
    /\ (call.op = "add_feature" /\ call.a # NULL
            /\ \E i \in named : ~HasFeature(i)) => ret = 0
    /\ (call.op = "add_variant" /\ call.a # NULL /\ call.f # NULL
            /\ \E i \in named : HasFeature(i) /\ ~HasVariant(i)) => ret = 0
    /\ (call.a # NULL /\ call.op \in {"add_feature", "add_variant",
                "add_article_category", "set_feature_name", "del_feature",
                "del_article"}) =>
          \A i \in 1..Len(pre.arts) : i \notin named =>
              \E j \in 1..Len(arts) : arts[j] = pre.arts[i]

(***************************************************************************)
(* Properties of the last-error slot, under SpecHeader.                    *)
(***************************************************************************)

(* C38: the last-error slot is changed only by failing operations and by   *)
(* lastError.  An operation that returns success leaves the slot as it     *)
(* was, so an earlier error is still there after any number of             *)
(* successes; an operation that fails leaves in the slot the kind of its   *)
(* own failure, whatever the slot held: an invalid value or a duplicate    *)
(* for setLocale and addTerritory, and for a save that cannot write a      *)
(* kind that is neither of these two nor LIBCATNER_ERR_NONE.               *)
C38_ErrorSlotFollowsFailures ==
    [][call'.op \notin {"last_error", "init", "load"} =>
            IF ret' # -1 THEN error' = error
            ELSE IF call'.op = "set_locale"
            THEN error' = LIBCATNER_ERR_INVALID_VALUE
            ELSE IF call'.op = "add_territory"
            THEN error' \in {LIBCATNER_ERR_INVALID_VALUE,
                              LIBCATNER_ERR_ALREADY_EXISTS}
            ELSE error' \notin {LIBCATNER_ERR_NONE, LIBCATNER_ERR_INVALID_VALUE,
                                 LIBCATNER_ERR_ALREADY_EXISTS}]_vars


-----------------------------------------------------------------------------
(* Properties of the generator reference, under SpecGeneratorNode.         *)

(* C39: the handle's generator reference is never stale.  After any        *)
(* sequence of addGenerator, setGenerator and deleteGenerator the          *)
(* reference is NULL exactly when HEADER holds no GENERATOR_INFO, and      *)
(* otherwise it points to the single GENERATOR_INFO of HEADER; after       *)
(* deleteGenerator the node is gone and the reference is NULL, a           *)
(* getGenerator without a node yields the empty string and 0, and a        *)
(* setGenerator(v) without a node creates the one node, holding v.         *)
C39_GeneratorReferenceFresh ==
    /\ (cs.generator = 0) <=> (doc.generators = <<>>)
    /\ cs.generator # 0 => Len(doc.generators) = 1 /\ cs.generator = 1
    /\ call.op = "del_generator" =>
            doc.generators = <<>> /\ cs.generator = 0
    /\ (call.op = "get_generator" /\ doc.generators = <<>>) =>
            ret = 0 /\ CString(buf.mem) = <<>>
    /\ (call.op = "set_generator" /\ pre.doc.generators = <<>>) =>
            doc.generators = <<Content(call.x)>> /\ cs.generator = 1

=============================================================================
